---- MODULE Spec2Model ----
(***************************************************************************)
(* A model of anyoverlay (src/anyoverlay.py): the two bounded recency      *)
(* caches (CachedImageRenderer and TiledGIFWidget), the overlay window     *)
(* (OverlayWindow) and the host application (AnyOverlay).                  *)
(*                                                                         *)
(* SpecCache drives one cache-owning object with arbitrary calls; Spec     *)
(* drives the host and its overlay window through their event handlers.    *)
(* Scale factors are integers in hundredths (100 is 1.0); sizes are pairs  *)
(* <<width, height>>; a bitmap is the record of what determines its        *)
(* pixels.  An optional value is <<>> (None) or <<v>>.                     *)
(***************************************************************************)
EXTENDS Integers, Sequences, FiniteSets, TLC

\* ------------------------------------------------------------------ bounds
\* Largest configured cache_size the cache-owning object is built with.
MaxCacheSize == 2
\* Largest number of frames of the animation.
MaxFrames == 2
\* Largest number of screens attached (the display combo lists that many).
MaxScreens == 2
\* Largest number of toggle requests counted while one toggle timer is pending.
MaxRequests == 3

\* ------------------------------------------------------- input domains
ImagePaths == {"a.png", "bad.png"}
TargetSizes == {<<4, 3>>}
\* the modes load_image is called with (tile mode goes through TiledImageWidget, as fit)
LoadModes == {"fit", "stretch", "center"}
ScaleFactors == {50, 100}
TileScales == {50, 100}
CacheSizes == 0 .. MaxCacheSize
\* the values typed into the cache-size field
CacheSizeEdits == {0, 1}
FrameSize == <<4, 2>>
Owners == {"CachedImageRenderer", "TiledGIFWidget"}

None == <<>>
Some(v) == <<v>>
EmptyCache == [k \in {} |-> None]

VARIABLES
    owner,               \* which object was constructed: a cache owner or the host
    cache,               \* CachedImageRenderer.cache
    cache_order,         \* CachedImageRenderer.cache_order
    max_cache_entries,   \* CachedImageRenderer.max_cache_entries
    scaled_frame_cache,  \* TiledGIFWidget.scaled_frame_cache
    frame_cache_order,   \* TiledGIFWidget.frame_cache_order
    max_cache_size,      \* TiledGIFWidget.max_cache_size
    render_settings,     \* the advanced_settings dict the object shares with the host
    frame_count,         \* number of frames of the widget's movie
    current_frame,       \* movie.currentFrameNumber()
    last,                \* what the last call did: op, key, hit, decoded, result, evicted
    access_order,        \* history: cached keys by time of last successful access
    loop_calls,          \* history: consecutive looping get_scaled_frame calls at one scale
    exc,                 \* exception that escaped a handler ("none" if none)
    app,                 \* the AnyOverlay object, its overlay_window included
    screen_count,        \* len(QApplication.screens())
    widget,              \* the tiled widget (TiledImageWidget or TiledGIFWidget)
    painted,             \* history: what the widget's last handler did
    program,             \* which host runs: "anyoverlay.py" or "main.py"
    ui_events,           \* toggle signals queued for the UI thread's event loop
    thread_pc,           \* where each thread is inside main.py's toggle_overlay
    toggled_on           \* history: the thread that last created or destroyed an overlay

cache_vars == <<owner, cache, cache_order, max_cache_entries, scaled_frame_cache,
                frame_cache_order, max_cache_size, render_settings, frame_count,
                current_frame, last, access_order, loop_calls, exc>>

cache_state == <<owner, cache, cache_order, max_cache_entries, scaled_frame_cache,
                 frame_cache_order, max_cache_size, render_settings, frame_count,
                 current_frame, last, access_order, loop_calls>>

\* the cache owner's state apart from the shared settings dict
cache_rest == <<owner, cache, cache_order, max_cache_entries, scaled_frame_cache,
                frame_cache_order, max_cache_size, frame_count, current_frame, last,
                access_order, loop_calls>>

host_vars == <<app, screen_count>>

widget_vars == <<widget, painted>>

thread_vars == <<program, ui_events, thread_pc, toggled_on>>

vars == <<cache_vars, host_vars, widget_vars, thread_vars>>

\* ------------------------------------------------------- python list helpers
RECURSIVE ListRemove(_, _)
\* list.remove(x): drops the first occurrence of x
ListRemove(seq, x) ==
    IF seq = <<>> THEN <<>>
    ELSE IF Head(seq) = x THEN Tail(seq)
    ELSE <<Head(seq)>> \o ListRemove(Tail(seq), x)

Max(a, b) == IF a >= b THEN a ELSE b
Min(a, b) == IF a <= b THEN a ELSE b

\* int(n * scale) for a scale in hundredths, n >= 0
ScaledInt(n, scale) == (n * scale) \div 100

\* QSize.scaled(box, Qt.KeepAspectRatio) followed by QImage.scaled's clamp to 1
KeepAspectSize(size, box) ==
    LET rw == (box[2] * size[1]) \div size[2]
        fitted == IF rw <= box[1]
                  THEN <<rw, box[2]>>
                  ELSE <<box[1], (box[1] * size[2]) \div size[1]>>
    IN  <<Max(fitted[1], 1), Max(fitted[2], 1)>>

\* the Qt transformation mode chosen from enable_antialiasing
TransformMode(settings) ==
    IF settings.enable_antialiasing THEN "smooth" ELSE "fast"

\* image.scaled(w, h, aspect, mode): an image already of the new size is returned as is
ScaledBitmap(image, new_size, mode) ==
    IF new_size = <<image.w, image.h>>
    THEN image
    ELSE [image EXCEPT !.w = new_size[1], !.h = new_size[2], !.transform = mode]

\* QImageReader(path).read() with setScaledSize(target_size): null for an unreadable file
CanDecode(image_path) == image_path # "bad.png"

DecodedImage(image_path, target_size, settings) ==
    [src |-> image_path, frame |-> 0, w |-> target_size[1], h |-> target_size[2],
     transform |-> "none",
     auto_transform |-> settings.enable_hardware_acceleration]

\* the scaling branch of load_image
ScaleForMode(image, target_size, scaling_mode, scale_factor, settings) ==
    LET box == <<Max(1, ScaledInt(target_size[1], scale_factor)),
                 Max(1, ScaledInt(target_size[2], scale_factor))>>
    IN  IF scaling_mode = "fit"
        THEN ScaledBitmap(image, KeepAspectSize(<<image.w, image.h>>, box),
                          TransformMode(settings))
        ELSE IF scaling_mode = "stretch"
        THEN ScaledBitmap(image, box, TransformMode(settings))
        ELSE image

\* movie.currentPixmap() of frame n
RawFrame(frame_number) ==
    [src |-> "movie", frame |-> frame_number, w |-> FrameSize[1], h |-> FrameSize[2],
     transform |-> "none", auto_transform |-> FALSE]

\* frame.scaled(max(1, int(w * s)), max(1, int(h * s)), KeepAspectRatio, mode)
ScaledFrame(frame, tile_scale, settings) ==
    LET box == <<Max(1, ScaledInt(frame.w, tile_scale)),
                 Max(1, ScaledInt(frame.h, tile_scale))>>
    IN  ScaledBitmap(frame, KeepAspectSize(<<frame.w, frame.h>>, box),
                     TransformMode(settings))

\* d[k] = v on a dict: the key is added when the dict lacks it
Put(d, k, v) == IF k \in DOMAIN d THEN [d EXCEPT ![k] = v] ELSE (k :> v) @@ d

\* the entries of a dict under the given keys
Restrict(d, keys) == [k \in (DOMAIN d) \cap keys |-> d[k]]

\* ------------------------------------------------------- the cache discipline
\* defective variant: the membership test always fails: every get decodes again
IsCachedNever(c, cache_key) == FALSE

\* `if cache_key in self.cache`
IsCached(c, cache_key) == cache_key \in DOMAIN c

\* defective variant: a hit leaves the recency order alone (FIFO instead of LRU)
BumpRecencyNone(order, cache_key) == order

\* `order.remove(cache_key); order.append(cache_key)`
BumpRecency(order, cache_key) == Append(ListRemove(order, cache_key), cache_key)

\* defective variant: `>` instead of `>=`: one entry too many before evicting
AtCapacityLate(c, max_entries) == Cardinality(DOMAIN c) > max_entries

\* defective variant: evicts one entry too early
AtCapacityEarly(c, max_entries) == Cardinality(DOMAIN c) + 1 >= max_entries

\* `if len(self.cache) >= self.max_cache_entries`
AtCapacity(c, max_entries) == Cardinality(DOMAIN c) >= max_entries

\* defective variant: `order.pop()` instead of `order.pop(0)`: evicts the newest entry
EvictIndexNewest(order) == Len(order)

\* index (1-based) of the element `order.pop(0)` removes
EvictIndex(order) == 1

\* defective variant: the evicted key leaves the recency order but stays in the mapping
WithoutKept(c, key) == c

\* `del self.cache[oldest_key]`
Without(c, key) == [k \in DOMAIN c \ {key} |-> c[k]]

\* `self.cache[cache_key] = pixmap`
With(c, key, value) == [k \in DOMAIN c \cup {key} |-> IF k = key THEN value ELSE c[k]]

RemoveAt(order, i) == SubSeq(order, 1, i - 1) \o SubSeq(order, i + 1, Len(order))

\* history of accesses restricted to the keys still cached
Accessed(hist, key, cached) ==
    LET h == Append(ListRemove(hist, key), key)
    IN  SelectSeq(h, LAMBDA k : k \in cached)

\* One get on a cache (c, order, max_entries): the outcome of
\* CachedImageRenderer.load_image and of TiledGIFWidget.get_scaled_frame, which
\* share the code.  `produced` is None when the source could not be decoded.
CacheGet(c, order, max_entries, cache_key, produced) ==
    IF IsCached(c, cache_key)
    THEN [cache |-> c, order |-> BumpRecency(order, cache_key),
          result |-> Some(c[cache_key]), hit |-> TRUE, decoded |-> FALSE,
          evicted |-> None, exc |-> "none"]
    ELSE IF produced = None
    THEN [cache |-> c, order |-> order, result |-> None, hit |-> FALSE,
          decoded |-> TRUE, evicted |-> None, exc |-> "none"]
    ELSE IF AtCapacity(c, max_entries)
    THEN IF order = <<>>
         THEN \* pop from empty list
              [cache |-> c, order |-> order, result |-> None, hit |-> FALSE,
               decoded |-> TRUE, evicted |-> None, exc |-> "IndexError"]
         ELSE LET oldest_key == order[EvictIndex(order)]
                  rest == RemoveAt(order, EvictIndex(order))
              IN  [cache |-> With(Without(c, oldest_key), cache_key, produced[1]),
                   order |-> Append(rest, cache_key),
                   result |-> produced, hit |-> FALSE, decoded |-> TRUE,
                   evicted |-> Some(oldest_key), exc |-> "none"]
    ELSE [cache |-> With(c, cache_key, produced[1]), order |-> Append(order, cache_key),
          result |-> produced, hit |-> FALSE, decoded |-> TRUE,
          evicted |-> None, exc |-> "none"]

Outcome(op, cache_key, r) ==
    [op |-> op, key |-> cache_key, hit |-> r.hit, decoded |-> r.decoded,
     result |-> r.result, evicted |-> r.evicted]

NoCall == [op |-> "init", key |-> <<>>, hit |-> FALSE, decoded |-> FALSE,
           result |-> None, evicted |-> None]

\* ------------------------------------------------------- host and window: data
\* image_path None (no overlay chosen yet)
NoPath == ""
\* files the gallery offers: a still image, a corrupt still image, an animation
GalleryPaths == {"a.png", "bad.png", "anim.gif"}
\* a path a settings file can name although the file is gone
StalePaths == {"gone.png"}
ScalingModes == <<"fit", "stretch", "center", "tile">>
\* geometry of the primary screen; each further screen is wider than the one before
ScreenSize == <<60, 50>>
\* what the transparency and background-color fields can hold when editing ends
TransparencyTexts == {[numeric |-> TRUE, value |-> 0], [numeric |-> TRUE, value |-> 128],
                      [numeric |-> TRUE, value |-> 300], [numeric |-> FALSE, value |-> 0]}
ColorTexts == {"#000000", "#ffffff", "red", "#zzzzzz"}
\* the characters of each text
Chars == ("#000000" :> <<"#", "0", "0", "0", "0", "0", "0">>)
         @@ ("#ffffff" :> <<"#", "f", "f", "f", "f", "f", "f">>)
         @@ ("red" :> <<"r", "e", "d">>)
         @@ ("#zzzzzz" :> <<"#", "z", "z", "z", "z", "z", "z">>)
\* the display combo lists the MaxScreens screens attached at start
DisplayIndices == 0 .. (MaxScreens - 1)
\* display_index after load_settings: a combo item, or -1, which the combo reports
\* (and on_display_changed stores) when the stored index names none of its items
StoredIndices == {0 - 1} \cup DisplayIndices

\* os.path.exists(path)
FileExists(path) == path \in GalleryPaths
\* path.lower().endswith('.gif')
IsGif(path) == path = "anim.gif"
\* screens[i].geometry(): the screens sit side by side
ScreenGeometry(i) ==
    [x |-> i * 100, y |-> 0, w |-> ScreenSize[1] + 10 * i, h |-> ScreenSize[2]]

\* QPixmap(path).size(): the still images are 4 x 3 pixels
SourceSize(path) == <<4, 3>>

\* The label is described by what it was built from and to: the widget class, the
\* image, the mode, the pixel size of its content, and in tile mode the tile's size and
\* whether antialiasing was on.  A TiledGIFWidget holds no prepared pixels.
NoLabel == [kind |-> "none", path |-> NoPath, mode |-> "none", size |-> <<0, 0>>,
            tile |-> <<0, 0>>, smooth |-> FALSE]

\* history: how many increase_scale / decrease_scale calls were made, the last one's
\* direction and the class it was called on; toggle_requests is history too: how many
\* toggle requests the pending toggle timer has seen (0 when none is pending)
NoScaleCall == [n |-> 0, op |-> "none", by |-> "none"]

\* AnyOverlay.__init__ followed by load_settings of a file naming path and index
NewApp(path, index) ==
    [image_path |-> path, display_index |-> index, scaling_mode |-> "fit",
     edit_mode |-> FALSE, is_overlay_visible |-> FALSE, overlay_window |-> None,
     toggle_timer_active |-> FALSE, toggle_requests |-> 0,
     advanced_settings |-> [transparency |-> 0, background_color |-> "#000000",
                            update_interval |-> 0],
     scale_call |-> NoScaleCall]

\* OverlayWindow.__init__ up to the call of initUI; update_timer is the attribute of that
\* name (None when the window has none), running_timers the number of the window's
\* QTimer children that are running
\* (advanced_settings is the host's dict itself, not a copy: it is read from the host)
NewWindow(image_path, screen_geometry, scaling_mode, settings) ==
    [image_path |-> image_path, screen_geometry |-> screen_geometry,
     scaling_mode |-> scaling_mode,
     edit_mode |-> FALSE, dragging |-> FALSE, resizing |-> FALSE,
     last_mouse_pos |-> None, scale_factor |-> settings.scale_factor,
     geometry |-> [x |-> 0, y |-> 0, w |-> 1, h |-> 1],
     transparent_for_input |-> FALSE, label |-> NoLabel,
     palette |-> [color |-> "none", alpha |-> 0],
     update_timer |-> None, running_timers |-> 0,
     shown |-> FALSE, deleted |-> FALSE]

\* the result of a window method: the window afterwards and the exception raised
Done(w) == [win |-> w, exc |-> "none"]
Raised(w, e) == [win |-> w, exc |-> e]

\* ------------------------------------------------------- OverlayWindow
initImage(w, settings) ==
    LET size == <<w.geometry.w, w.geometry.h>>
        box == <<Max(1, ScaledInt(size[1], w.scale_factor)),
                 Max(1, ScaledInt(size[2], w.scale_factor))>>
        source == SourceSize(w.image_path)
        tile_size ==
            IF settings.tile_scale # 100
            THEN KeepAspectSize(source, <<Max(1, ScaledInt(source[1], settings.tile_scale)),
                                          Max(1, ScaledInt(source[2], settings.tile_scale))>>)
            ELSE source
        built(kind, content, tile, smooth) ==
            [kind |-> kind, path |-> w.image_path, mode |-> w.scaling_mode,
             size |-> content, tile |-> tile, smooth |-> smooth]
        plain(content) == built("QLabel", content, <<0, 0>>, FALSE)
    IN  IF w.deleted THEN Raised(w, "RuntimeError")
        ELSE IF IsGif(w.image_path)
        THEN IF w.scaling_mode = "tile"
             THEN Done([w EXCEPT !.label =
                           built("TiledGIFWidget", <<0, 0>>, <<0, 0>>, FALSE)])
             ELSE IF w.scaling_mode = "center"
             THEN \* movie.setScaledSize(QSize()): the frames' own size
                  Done([w EXCEPT !.label = plain(FrameSize)])
             ELSE \* movie.setScaledSize(scaled_size)
                  Done([w EXCEPT !.label = plain(box)])
        ELSE IF ~CanDecode(w.image_path)
        THEN \* QPixmap(path).isNull(): warning and return, the old label already deleted
             Done([w EXCEPT !.label = NoLabel])
        ELSE IF w.scaling_mode = "fit"
        THEN Done([w EXCEPT !.label = plain(KeepAspectSize(source, box))])
        ELSE IF w.scaling_mode = "stretch"
        THEN Done([w EXCEPT !.label = plain(box)])
        ELSE IF w.scaling_mode = "center"
        THEN Done([w EXCEPT !.label = plain(source)])
        ELSE \* tile: a pixmap of the window's size filled with the scaled tile
             Done([w EXCEPT !.label = built("QLabel", size, tile_size,
                                            settings.enable_antialiasing)])

initUI(w, advanced_settings, settings) ==
    IF w.deleted THEN Raised(w, "RuntimeError")
    ELSE LET w1 == [w EXCEPT !.geometry = w.screen_geometry,
                             !.transparent_for_input = TRUE]
             r == initImage(w1, settings)
         IN  IF r.exc # "none" THEN r
             ELSE IF r.win.label.kind = "none"
             THEN \* self.layout().addWidget(self.label): no attribute 'label'
                  Raised(r.win, "AttributeError")
             ELSE LET update_interval ==
                          IF "update_interval" \in DOMAIN advanced_settings
                          THEN advanced_settings.update_interval ELSE 0
                  IN  Done([r.win EXCEPT
                              !.palette = [color |-> advanced_settings.background_color,
                                           alpha |-> advanced_settings.transparency],
                              !.update_timer = IF update_interval > 0
                                               THEN Some(update_interval) ELSE @,
                              !.running_timers = IF update_interval > 0
                                                 THEN @ + 1 ELSE @])

setImage(w, image_path, settings) ==
    IF w.image_path = image_path THEN Done(w)
    ELSE initImage([w EXCEPT !.image_path = image_path], settings)

setScalingMode(w, mode, settings) ==
    IF w.scaling_mode = mode THEN Done(w)
    ELSE initImage([w EXCEPT !.scaling_mode = mode], settings)

setGeometry(w, geometry) ==
    IF w.deleted THEN Raised(w, "RuntimeError")
    ELSE Done([w EXCEPT !.geometry = geometry])

\* defective variant: the two branches set the input transparency the other way round
SetEditModeInputSwapped(w, edit_mode) ==
    IF w.deleted THEN Raised([w EXCEPT !.edit_mode = edit_mode], "RuntimeError")
    ELSE Done([w EXCEPT !.edit_mode = edit_mode,
                        !.transparent_for_input = edit_mode])

set_edit_mode(w, edit_mode) ==
    IF w.deleted THEN Raised([w EXCEPT !.edit_mode = edit_mode], "RuntimeError")
    ELSE Done([w EXCEPT !.edit_mode = edit_mode,
                        !.transparent_for_input = ~edit_mode])

\* ------------------------------------------------------- AnyOverlay
\* the result of a host method: the host afterwards and the exception raised
HostDone(a) == [app |-> a, exc |-> "none"]
HostRaised(a, e) == [app |-> a, exc |-> e]
WithWindow(a, w) == [a EXCEPT !.overlay_window = Some(w)]

\* defective variant: `>` instead of `>=` in the range test
IndexOutOfRangeLate(index, count) == index > count

\* `self.display_index >= len(screens)`
IndexOutOfRange(index, count) == index >= count

\* screens[index], a negative index counting from the end
ScreenAt(index, count) ==
    IF index < 0 THEN ScreenGeometry(count + index) ELSE ScreenGeometry(index)

get_screen_geometry(a, count) ==
    IF IndexOutOfRange(a.display_index, count)
    THEN ScreenGeometry(0)
    ELSE ScreenAt(a.display_index, count)

\* `if self.display_index >= len(screens): warning; return`
DisplayRejected(a, count) == a.display_index >= count

create_overlay(a, count, settings) ==
    IF a.image_path = NoPath \/ ~FileExists(a.image_path) THEN HostDone(a)
    ELSE IF DisplayRejected(a, count) THEN HostDone(a)
    ELSE
      LET geometry == get_screen_geometry(a, count)
          built ==
            IF a.overlay_window = None
            THEN initUI(NewWindow(a.image_path, geometry, a.scaling_mode, settings),
                        a.advanced_settings, settings)
            ELSE LET w0 == a.overlay_window[1]
                     r1 == setGeometry(w0, geometry)
                     r2 == IF r1.exc # "none" THEN r1
                           ELSE setScalingMode(r1.win, a.scaling_mode, settings)
                     r3 == IF r2.exc # "none" THEN r2
                           ELSE initImage([r2.win EXCEPT
                                              !.scale_factor = settings.scale_factor],
                                          settings)
                 IN  IF r3.exc # "none" THEN r3
                     ELSE setImage(r3.win, a.image_path, settings)
      IN  IF built.exc # "none"
          THEN \* the constructor raised: nothing was assigned
               IF a.overlay_window = None THEN HostRaised(a, built.exc)
               ELSE HostRaised(WithWindow(a, built.win), built.exc)
          ELSE LET r == set_edit_mode([built.win EXCEPT !.shown = TRUE], a.edit_mode)
               IN  [app |-> [WithWindow(a, r.win) EXCEPT !.is_overlay_visible = TRUE],
                    exc |-> r.exc]

destroy_overlay(a) ==
    IF a.overlay_window # None
    THEN IF a.overlay_window[1].deleted
         THEN \* overlay_window.hide() on a deleted Qt object
              HostRaised(a, "RuntimeError")
         ELSE HostDone([a EXCEPT !.overlay_window = None, !.is_overlay_visible = FALSE])
    ELSE HostDone([a EXCEPT !.is_overlay_visible = FALSE])

perform_toggle(a, count, settings) ==
    IF a.is_overlay_visible THEN destroy_overlay(a) ELSE create_overlay(a, count, settings)

\* defective variant: every request flips the overlay's visibility at once, no timer
ToggleFlipsAtOnce(a) == [a EXCEPT !.is_overlay_visible = ~@]

\* AnyOverlay.toggle_overlay, the slot of the Toggle Overlay button and of the hotkey
\* signal: `if not self.toggle_timer.isActive(): self.toggle_timer.start(...)`
toggle_overlay_request(a) ==
    IF a.toggle_timer_active
    THEN [a EXCEPT !.toggle_requests = Min(@ + 1, MaxRequests)]
    ELSE [a EXCEPT !.toggle_timer_active = TRUE, !.toggle_requests = 1]

\* the window the host would update: `self.is_overlay_visible and self.overlay_window`
HasOverlay(a) == a.is_overlay_visible /\ a.overlay_window # None

\* applies a window method's result to the host
Applied(a, r) == [app |-> WithWindow(a, r.win), exc |-> r.exc]

Commit(r) ==
    /\ app' = r.app
    /\ exc' = r.exc

\* AnyOverlay.save_settings: the record written to the file holds the host's own
\* advanced_settings dict, so `settings['advanced_settings']['scale_factor'] =
\* self.overlay_window.scale_factor` writes the window's scale factor into the shared
\* dict whenever a window object exists; the result is the dict afterwards
save_settings(a, settings) ==
    IF a.overlay_window # None
    THEN [settings EXCEPT !.scale_factor = a.overlay_window[1].scale_factor]
    ELSE settings

\* `if self.is_overlay_visible and self.overlay_window: self.overlay_window.initImage()`
RebuildOverlay(a, settings) ==
    IF HasOverlay(a)
    THEN Commit(Applied(a, initImage(a.overlay_window[1], settings)))
    ELSE Commit(HostDone(a))

\* ------------------------------------------------------- tiled widgets
\* sizes the layout gives the tiled widget
WidgetSizes == {<<4, 3>>, <<5, 3>>}
WidgetOwners == {"TiledImageWidget", "TiledGIFWidget"}

\* TiledImageWidget.__init__ / TiledGIFWidget.__init__: a widget is hidden until shown;
\* last_tile_size is TiledGIFWidget's last_frame_size
NewWidget(image_path, size) ==
    [image_path |-> image_path, size |-> size, visible |-> FALSE,
     tile_positions |-> <<>>, last_size |-> None, last_tile_size |-> None,
     background_buffer |-> None, buffer_size |-> None,
     frame_timer_active |-> FALSE]

\* what a handler of the widget did: whether the positions were recomputed, whether the
\* buffer was reallocated, how many tiles were drawn into the buffer and onto the widget,
\* which movie frame was drawn, how many frames were scaled
NoPaint ==
    [op |-> "init", recomputed |-> FALSE, reallocated |-> FALSE, composited |-> 0,
     drawn |-> 0, frame |-> None, scaled |-> 0]

RECURSIVE PyRangeInclusive(_, _, _)
\* defective variant: a range that includes its stop value
PyRangeInclusive(start, stop, step) ==
    IF start > stop THEN <<>>
    ELSE <<start>> \o PyRangeInclusive(start + step, stop, step)

RECURSIVE PyRange(_, _, _)
\* range(start, stop, step) for step >= 1
PyRange(start, stop, step) ==
    IF start >= stop THEN <<>>
    ELSE <<start>> \o PyRange(start + step, stop, step)

\* defective variant: the rows step by the tile's width and the columns by its height
TilePositionsSwapped(size, tile_size) ==
    LET xs == PyRange(0, size[1], tile_size[2])
        ys == PyRange(0, size[2], tile_size[1])
    IN  [i \in 1 .. (Len(xs) * Len(ys)) |->
            <<xs[((i - 1) \div Len(ys)) + 1], ys[((i - 1) % Len(ys)) + 1]>>]

\* `for x in range(0, width, tile.width()): for y in range(0, height, tile.height()):
\*      tile_positions.append(QPoint(x, y))`
TilePositions(size, tile_size) ==
    LET xs == PyRange(0, size[1], tile_size[1])
        ys == PyRange(0, size[2], tile_size[2])
    IN  [i \in 1 .. (Len(xs) * Len(ys)) |->
            <<xs[((i - 1) \div Len(ys)) + 1], ys[((i - 1) % Len(ys)) + 1]>>]

\* defective variant: the memo test looks at the widget size only
SameAsLastSizeOnly(w, tile_size) == Some(w.size) = w.last_size

\* `self.size() == self.last_size and tile_size == self.last_tile_size`
SameAsLast(w, tile_size) ==
    Some(w.size) = w.last_size /\ Some(tile_size) = w.last_tile_size

\* calculate_tile_positions of either widget: the widget afterwards and whether the
\* positions were recomputed
calculate_tile_positions(w, tile_size) ==
    IF SameAsLast(w, tile_size)
    THEN [widget |-> w, recomputed |-> FALSE]
    ELSE [widget |-> [w EXCEPT !.tile_positions = TilePositions(w.size, tile_size),
                               !.last_size = Some(w.size),
                               !.last_tile_size = Some(tile_size)],
          recomputed |-> TRUE]

\* TiledImageWidget.update_background_buffer: the buffer is a pixmap of the widget's
\* size holding the tile drawn at every position
update_background_buffer(w, base_pixmap) ==
    LET realloc == w.background_buffer = None \/ w.buffer_size # Some(w.size)
        size == IF realloc THEN w.size ELSE w.background_buffer[1].size
    IN  [widget |-> [w EXCEPT !.background_buffer =
                                  Some([size |-> size, tile |-> base_pixmap,
                                        at |-> w.tile_positions]),
                              !.buffer_size = IF realloc THEN Some(w.size)
                                              ELSE w.buffer_size],
         reallocated |-> realloc,
         composited |-> Len(w.tile_positions)]

\* ------------------------------------------------------- threads
Threads == {"ui", "listener"}
Programs == {"anyoverlay.py", "main.py"}
\* no thread is inside main.py's toggle_overlay
Idle == [t \in Threads |-> "idle"]

\* ------------------------------------------------------- SpecCache: state
DefaultSettings ==
    [enable_antialiasing |-> TRUE, enable_hardware_acceleration |-> TRUE,
     cache_size |-> 0, tile_scale |-> 100, scale_factor |-> 100,
     enable_scale_limits |-> TRUE]

\* CachedImageRenderer.__init__ / TiledGIFWidget.__init__ with a configured cache_size
InitCache ==
    /\ owner \in Owners
    /\ \E size \in CacheSizes, ts \in TileScales :
          /\ render_settings = [DefaultSettings EXCEPT !.cache_size = size,
                                                      !.tile_scale = ts]
          /\ max_cache_entries = size
          /\ max_cache_size = size
    /\ cache = EmptyCache
    /\ cache_order = <<>>
    /\ scaled_frame_cache = EmptyCache
    /\ frame_cache_order = <<>>
    /\ frame_count \in 1 .. MaxFrames
    /\ current_frame = 0
    /\ last = NoCall
    /\ access_order = <<>>
    /\ loop_calls = 0
    /\ exc = "none"
    /\ app = NewApp(NoPath, 0)
    /\ screen_count = 1
    /\ widget = [NewWidget("anim.gif", <<4, 3>>) EXCEPT
                    !.visible = TRUE,
                    !.frame_timer_active = (owner = "TiledGIFWidget")]
    /\ painted = NoPaint
    /\ program = "anyoverlay.py"
    /\ ui_events = 0
    /\ thread_pc = Idle
    /\ toggled_on = "none"

\* an exception that escapes a slot ends the process (PyQt5 aborts)
Running == exc = "none"

\* ------------------------------------------------------- SpecCache: operations
\* defective variant: a source that cannot be decoded is scaled and stored like any other
LoadImageStoresFailure(image_path, target_size, scaling_mode, scale_factor) ==
    LET cache_key == <<image_path, target_size, scaling_mode, scale_factor>>
        produced ==
            Some(ScaleForMode(DecodedImage(image_path, target_size, render_settings),
                              target_size, scaling_mode, scale_factor, render_settings))
        r == CacheGet(cache, cache_order, max_cache_entries, cache_key, produced)
    IN  /\ cache' = r.cache
        /\ cache_order' = r.order
        /\ exc' = r.exc
        /\ last' = Outcome("load_image", cache_key, r)
        /\ access_order' = Accessed(access_order, cache_key, DOMAIN r.cache)

load_image(image_path, target_size, scaling_mode, scale_factor) ==
    LET cache_key == <<image_path, target_size, scaling_mode, scale_factor>>
        produced ==
            IF CanDecode(image_path)
            THEN Some(ScaleForMode(DecodedImage(image_path, target_size, render_settings),
                                   target_size, scaling_mode, scale_factor,
                                   render_settings))
            ELSE None
        r == CacheGet(cache, cache_order, max_cache_entries, cache_key, produced)
    IN  /\ cache' = r.cache
        /\ cache_order' = r.order
        /\ exc' = r.exc
        /\ last' = Outcome("load_image", cache_key, r)
        /\ access_order' = IF r.result # None
                           THEN Accessed(access_order, cache_key, DOMAIN r.cache)
                           ELSE access_order

\* a load_image call on a renderer of its own
LoadImage ==
    \E image_path \in ImagePaths, target_size \in TargetSizes,
       scaling_mode \in LoadModes, scale_factor \in ScaleFactors :
        /\ Running
        /\ owner = "CachedImageRenderer"
        /\ load_image(image_path, target_size, scaling_mode, scale_factor)
        /\ UNCHANGED <<host_vars, widget_vars, thread_vars, owner, max_cache_entries,
                       scaled_frame_cache, frame_cache_order, max_cache_size,
                       render_settings, frame_count, current_frame, loop_calls>>

clear_cache ==
    /\ Running
    /\ owner = "CachedImageRenderer"
    /\ cache' = EmptyCache
    /\ cache_order' = <<>>
    /\ access_order' = <<>>
    /\ last' = [NoCall EXCEPT !.op = "clear_cache"]
    /\ UNCHANGED <<host_vars, widget_vars, thread_vars, owner, max_cache_entries, scaled_frame_cache, frame_cache_order,
                   max_cache_size, render_settings, frame_count, current_frame,
                   loop_calls, exc>>

get_scaled_frame(frame, frame_number, tile_scale) ==
    LET cache_key == <<frame_number, tile_scale>>
        r == CacheGet(scaled_frame_cache, frame_cache_order, max_cache_size, cache_key,
                      Some(ScaledFrame(frame, tile_scale, render_settings)))
        looping == /\ last.op = "get_scaled_frame"
                   /\ last.key[2] = tile_scale
                   /\ frame_number = (last.key[1] + 1) % frame_count
    IN  /\ scaled_frame_cache' = r.cache
        /\ frame_cache_order' = r.order
        /\ exc' = r.exc
        /\ last' = Outcome("get_scaled_frame", cache_key, r)
        /\ access_order' = IF r.result # None
                           THEN Accessed(access_order, cache_key, DOMAIN r.cache)
                           ELSE access_order
        /\ loop_calls' = IF looping THEN Min(loop_calls + 1, frame_count + 1) ELSE 1

\* the body of TiledGIFWidget.paintEvent: scales (or fetches) the movie's current
\* frame, brings the tile positions up to date and draws the frame at each of them
GifPaint(op) ==
    /\ get_scaled_frame(RawFrame(current_frame), current_frame,
                        Max(1, render_settings.tile_scale))
    /\ IF exc' # "none"
       THEN /\ widget' = widget
            /\ painted' = [painted EXCEPT !.op = op]
       ELSE LET scaled_frame == last'.result[1]
                c == calculate_tile_positions(widget, <<scaled_frame.w, scaled_frame.h>>)
            IN  /\ widget' = c.widget
                /\ painted' = [op |-> op, recomputed |-> c.recomputed,
                               reallocated |-> FALSE, composited |-> 0,
                               drawn |-> Len(c.widget.tile_positions),
                               frame |-> Some(current_frame),
                               scaled |-> IF last'.decoded THEN 1 ELSE 0]
    /\ UNCHANGED <<host_vars, thread_vars, owner, cache, cache_order, max_cache_entries, max_cache_size,
                   render_settings, frame_count, current_frame>>

\* TiledGIFWidget.paintEvent: Qt paints a widget only while it is visible
GifPaintEvent ==
    /\ Running
    /\ owner = "TiledGIFWidget"
    /\ widget.visible
    /\ GifPaint("paintEvent")

\* the movie moves to its next frame, wrapping at the end
MovieNextFrame ==
    /\ Running
    /\ owner = "TiledGIFWidget"
    /\ current_frame' = (current_frame + 1) % frame_count
    /\ UNCHANGED <<host_vars, widget_vars, thread_vars, owner, cache, cache_order, max_cache_entries, scaled_frame_cache,
                   frame_cache_order, max_cache_size, render_settings, frame_count,
                   last, access_order, loop_calls, exc>>

\* AnyOverlay.on_cache_size_changed with a valid integer: the shared settings dict
\* gets the value; the caches built earlier are not touched
on_cache_size_changed(value) ==
    /\ Running
    /\ render_settings' = save_settings(app, [render_settings EXCEPT !.cache_size = value])
    /\ UNCHANGED <<host_vars, widget_vars, thread_vars, owner, cache, cache_order, max_cache_entries, scaled_frame_cache,
                   frame_cache_order, max_cache_size, frame_count, current_frame,
                   last, access_order, loop_calls, exc>>

CacheSizeChanged == \E value \in CacheSizeEdits : on_cache_size_changed(value)

\* AnyOverlay.on_antialias_changed: the shared dict gets the value and a visible
\* overlay rebuilds its image
on_antialias_changed(state) ==
    /\ Running
    /\ render_settings' =
           save_settings(app, [render_settings EXCEPT !.enable_antialiasing = state])
    /\ RebuildOverlay(app, render_settings')
    /\ UNCHANGED <<screen_count, widget_vars, thread_vars, owner, cache, cache_order,
                   max_cache_entries, scaled_frame_cache, frame_cache_order,
                   max_cache_size, frame_count, current_frame, last, access_order,
                   loop_calls>>

AntialiasChanged ==
    \E state \in BOOLEAN :
        /\ state # render_settings.enable_antialiasing
        /\ on_antialias_changed(state)

\* AnyOverlay.on_tile_scale_changed with a number in the field (nobody edits the tile
\* scale while only a CachedImageRenderer exists)
on_tile_scale_changed(value) ==
    /\ Running
    /\ owner # "CachedImageRenderer"
    /\ render_settings' = save_settings(app, Put(render_settings, "tile_scale", value))
    /\ RebuildOverlay(app, render_settings')
    /\ UNCHANGED <<screen_count, widget_vars, thread_vars, owner, cache, cache_order,
                   max_cache_entries, scaled_frame_cache, frame_cache_order,
                   max_cache_size, frame_count, current_frame, last, access_order,
                   loop_calls>>

TileScaleChanged ==
    \E value \in TileScales :
        /\ value # render_settings.tile_scale
        /\ on_tile_scale_changed(value)

NextCache ==
    \/ LoadImage
    \/ clear_cache
    \/ GifPaintEvent
    \/ MovieNextFrame
    \/ CacheSizeChanged
    \/ AntialiasChanged
    \/ TileScaleChanged

SpecCache == InitCache /\ [][NextCache]_vars

\* ------------------------------------------------------- tiled widgets: events
\* number of frames of the animation the tiled GIF widget plays
MovieFrames == 3

\* A tiled widget after construction with a configured cache_size: not yet shown, the
\* frame timer created but not started, the movie started (TiledGIFWidget.__init__)
InitWidgets ==
    /\ owner \in WidgetOwners
    /\ \E size \in WidgetSizes, path \in ImagePaths :
          widget = NewWidget(IF owner = "TiledGIFWidget" THEN "anim.gif" ELSE path, size)
    /\ painted = NoPaint
    /\ \E ts \in TileScales :
          render_settings = [DefaultSettings EXCEPT !.cache_size = MaxCacheSize,
                                                      !.tile_scale = ts]
    /\ max_cache_entries = MaxCacheSize
    /\ max_cache_size = MaxCacheSize
    /\ cache = EmptyCache
    /\ cache_order = <<>>
    /\ scaled_frame_cache = EmptyCache
    /\ frame_cache_order = <<>>
    /\ frame_count = IF owner = "TiledGIFWidget" THEN MovieFrames ELSE 1
    /\ current_frame = 0
    /\ last = NoCall
    /\ access_order = <<>>
    /\ loop_calls = 0
    /\ exc = "none"
    /\ app = NewApp(NoPath, 0)
    /\ screen_count = 1
    /\ program = "anyoverlay.py"
    /\ ui_events = 0
    /\ thread_pc = Idle
    /\ toggled_on = "none"

\* TiledImageWidget.paintEvent
ImagePaintEvent ==
    /\ Running
    /\ owner = "TiledImageWidget"
    /\ widget.visible
    /\ LET tile_scale == Max(1, render_settings.tile_scale)
           base_size == <<ScaledInt(widget.size[1], tile_scale),
                          ScaledInt(widget.size[2], tile_scale)>>
       IN  load_image(widget.image_path, base_size, "fit", tile_scale)
    /\ IF exc' # "none" \/ last'.result = None
       THEN /\ widget' = widget
            /\ painted' = [NoPaint EXCEPT !.op = "paintEvent",
                                          !.scaled = IF last'.decoded THEN 1 ELSE 0]
       ELSE LET base_pixmap == last'.result[1]
                c == calculate_tile_positions(widget, <<base_pixmap.w, base_pixmap.h>>)
                b == update_background_buffer(c.widget, base_pixmap)
            IN  /\ widget' = b.widget
                /\ painted' = [op |-> "paintEvent", recomputed |-> c.recomputed,
                               reallocated |-> b.reallocated,
                               composited |-> b.composited, drawn |-> 1,
                               frame |-> None,
                               scaled |-> IF last'.decoded THEN 1 ELSE 0]
    /\ UNCHANGED <<host_vars, thread_vars, owner, max_cache_entries, scaled_frame_cache,
                   frame_cache_order, max_cache_size, render_settings, frame_count,
                   current_frame, loop_calls>>

\* the frame timer times out: TiledGIFWidget.update_frame
update_frame ==
    /\ Running
    /\ owner = "TiledGIFWidget"
    /\ widget.frame_timer_active
    /\ IF ~widget.visible
       THEN UNCHANGED vars
       ELSE GifPaint("update_frame")

\* defective variant: hiding leaves the frame timer running
TimerAfterHideKept(active) == active

\* `if self.frame_timer.isActive(): self.frame_timer.stop()`
TimerAfterHide(active) == FALSE

\* the widget (its window) becomes visible: TiledGIFWidget.showEvent starts the timer
showEvent ==
    /\ Running
    /\ owner \in WidgetOwners
    /\ ~widget.visible
    /\ widget' = [widget EXCEPT !.visible = TRUE,
                                !.frame_timer_active =
                                    IF owner = "TiledGIFWidget" THEN TRUE ELSE @]
    /\ painted' = [NoPaint EXCEPT !.op = "showEvent", !.frame = painted.frame]
    /\ UNCHANGED <<cache_vars, host_vars, thread_vars>>

\* the widget is hidden: TiledGIFWidget.hideEvent stops the timer
hideEvent ==
    /\ Running
    /\ owner \in WidgetOwners
    /\ widget.visible
    /\ widget' = [widget EXCEPT !.visible = FALSE,
                                !.frame_timer_active =
                                    IF owner = "TiledGIFWidget"
                                    THEN TimerAfterHide(@) ELSE @]
    /\ painted' = [NoPaint EXCEPT !.op = "hideEvent", !.frame = painted.frame]
    /\ UNCHANGED <<cache_vars, host_vars, thread_vars>>

\* the layout gives the widget another size; TiledImageWidget.resizeEvent drops the
\* buffer, TiledGIFWidget has no resize handler
resizeEvent(new_size) ==
    /\ Running
    /\ owner \in WidgetOwners
    /\ widget' = IF owner = "TiledImageWidget"
                 THEN [widget EXCEPT !.size = new_size, !.background_buffer = None,
                                     !.buffer_size = None]
                 ELSE [widget EXCEPT !.size = new_size]
    /\ painted' = [NoPaint EXCEPT !.op = "resizeEvent", !.frame = painted.frame]
    /\ UNCHANGED <<cache_vars, host_vars, thread_vars>>

WidgetResized ==
    \E new_size \in WidgetSizes : new_size # widget.size /\ resizeEvent(new_size)

NextWidgets ==
    \/ ImagePaintEvent
    \/ GifPaintEvent
    \/ update_frame
    \/ MovieNextFrame
    \/ showEvent
    \/ hideEvent
    \/ WidgetResized
    \/ TileScaleChanged

SpecWidgets == InitWidgets /\ [][NextWidgets]_vars

\* ------------------------------------------------------- host and window: events
\* The host after __init__: the defaults of lines 886-913 with the image path and
\* display index load_settings read.  (initUI's call of update_scale_factor_state,
\* line 1011, which the class does not define, is taken to do nothing.)
InitHost ==
    /\ \E path \in {NoPath} \cup StalePaths, index \in StoredIndices :
          app = NewApp(path, index)
    /\ screen_count = MaxScreens
    /\ exc = "none"
    /\ owner = "AnyOverlay"
    /\ render_settings = DefaultSettings
    /\ max_cache_entries = 0
    /\ max_cache_size = 0
    /\ cache = EmptyCache
    /\ cache_order = <<>>
    /\ scaled_frame_cache = EmptyCache
    /\ frame_cache_order = <<>>
    /\ frame_count = 1
    /\ current_frame = 0
    /\ last = NoCall
    /\ access_order = <<>>
    /\ loop_calls = 0
    /\ widget = NewWidget(NoPath, <<4, 3>>)
    /\ painted = NoPaint
    /\ program = "anyoverlay.py"
    /\ ui_events = 0
    /\ thread_pc = Idle
    /\ toggled_on = "none"

\* the Toggle Overlay button or the hotkey signal: starts the single-shot timer
toggle_overlay ==
    /\ Running
    /\ ~app.toggle_timer_active
    /\ app' = toggle_overlay_request(app)
    /\ UNCHANGED <<exc, screen_count, cache_state, widget_vars, thread_vars>>

\* the toggle timer fires
ToggleTimerFires ==
    /\ Running
    /\ app.toggle_timer_active
    /\ Commit(perform_toggle([app EXCEPT !.toggle_timer_active = FALSE,
                                         !.toggle_requests = 0],
                             screen_count, render_settings))
    /\ toggled_on' = "ui"
    /\ UNCHANGED <<screen_count, cache_state, widget_vars, program, ui_events, thread_pc>>

\* the gallery dialog is accepted with a selected file
open_media_gallery(selected) ==
    /\ Running
    /\ LET a == [app EXCEPT !.image_path = selected]
       IN  /\ render_settings' = save_settings(a, render_settings)
           /\ IF a.is_overlay_visible
              THEN LET d == destroy_overlay(a)
                   IN  IF d.exc # "none" THEN Commit(d)
                       ELSE Commit(create_overlay(d.app, screen_count, render_settings'))
              ELSE Commit(HostDone(a))
    /\ UNCHANGED <<screen_count, cache_rest, widget_vars, thread_vars>>

GalleryAccepted == \E selected \in GalleryPaths : open_media_gallery(selected)

toggle_edit_mode(checked) ==
    /\ Running
    /\ LET a == [app EXCEPT !.edit_mode = checked]
       IN  IF HasOverlay(a)
           THEN Commit(Applied(a, set_edit_mode(a.overlay_window[1], checked)))
           ELSE Commit(HostDone(a))
    /\ UNCHANGED <<screen_count, cache_state, widget_vars, thread_vars>>

EditModeButton == \E checked \in BOOLEAN : toggle_edit_mode(checked)

\* a key reaches the overlay window
keyPressEvent(key) ==
    /\ Running
    /\ app.overlay_window # None
    /\ ~app.overlay_window[1].deleted
    /\ LET w == app.overlay_window[1]
       IN  IF key = "Escape" THEN Commit(Applied(app, set_edit_mode(w, FALSE)))
           ELSE \* Delete: self.deleteLater()
                Commit(HostDone(WithWindow(app, [w EXCEPT !.deleted = TRUE,
                                                       !.shown = FALSE])))
    /\ UNCHANGED <<screen_count, cache_state, widget_vars, thread_vars>>

KeyPressed == \E key \in {"Escape", "Delete"} : keyPressEvent(key)

on_scaling_mode_changed(index) ==
    /\ Running
    /\ LET a == [app EXCEPT !.scaling_mode = ScalingModes[index + 1]]
       IN  /\ render_settings' = save_settings(a, render_settings)
           /\ IF HasOverlay(a)
              THEN Commit(Applied(a, setScalingMode(a.overlay_window[1], a.scaling_mode,
                                                    render_settings')))
              ELSE Commit(HostDone(a))
    /\ UNCHANGED <<screen_count, cache_rest, widget_vars, thread_vars>>

ScalingModeChanged ==
    \E index \in 0 .. (Len(ScalingModes) - 1) :
        /\ ScalingModes[index + 1] # app.scaling_mode
        /\ on_scaling_mode_changed(index)

on_display_changed(index) ==
    /\ Running
    /\ LET a == [app EXCEPT !.display_index = index]
       IN  /\ render_settings' = save_settings(a, render_settings)
           /\ IF a.is_overlay_visible /\ a.overlay_window # None
              THEN Commit(Applied(a, setGeometry(a.overlay_window[1],
                                                 get_screen_geometry(a, screen_count))))
              ELSE Commit(HostDone(a))
    /\ UNCHANGED <<screen_count, cache_rest, widget_vars, thread_vars>>

DisplayChanged ==
    \E index \in DisplayIndices :
        /\ index # app.display_index
        /\ on_display_changed(index)

on_transparency_changed(text) ==
    /\ Running
    /\ IF text.numeric /\ 0 <= text.value /\ text.value <= 255
       THEN LET a == [app EXCEPT !.advanced_settings =
                                     Put(@, "transparency", text.value)]
            IN  /\ render_settings' = save_settings(a, render_settings)
                /\ IF HasOverlay(a)
                   THEN Commit(Applied(a, initUI(a.overlay_window[1], a.advanced_settings,
                                                 render_settings')))
                   ELSE Commit(HostDone(a))
       ELSE \* ValueError: warning, the field is reset to the stored value,
            \* self.advanced_settings['transparency']
            /\ exc' = IF "transparency" \in DOMAIN app.advanced_settings
                      THEN "none" ELSE "KeyError"
            /\ UNCHANGED <<app, render_settings>>
    /\ UNCHANGED <<screen_count, cache_rest, widget_vars, thread_vars>>

TransparencyEdited == \E text \in TransparencyTexts : on_transparency_changed(text)

on_bg_color_changed(color) ==
    /\ Running
    /\ IF ~(Chars[color] # <<>> /\ Chars[color][1] = "#") \/ Len(Chars[color]) # 7
       THEN \* not '#' followed by six characters: warning, the field is reset to
            \* self.advanced_settings['background_color']
            /\ exc' = IF "background_color" \in DOMAIN app.advanced_settings
                      THEN "none" ELSE "KeyError"
            /\ UNCHANGED <<app, render_settings>>
       ELSE LET a == [app EXCEPT !.advanced_settings =
                                     Put(@, "background_color", color)]
            IN  /\ render_settings' = save_settings(a, render_settings)
                /\ IF HasOverlay(a)
                   THEN Commit(Applied(a, initUI(a.overlay_window[1], a.advanced_settings,
                                                 render_settings')))
                   ELSE Commit(HostDone(a))
    /\ UNCHANGED <<screen_count, cache_rest, widget_vars, thread_vars>>

BgColorEdited == \E color \in ColorTexts : on_bg_color_changed(color)

\* a monitor is plugged in or removed
ScreensChanged ==
    /\ Running
    /\ \E n \in 1 .. MaxScreens : n # screen_count /\ screen_count' = n
    /\ UNCHANGED <<app, exc, cache_state, widget_vars, thread_vars>>

Next ==
    \/ toggle_overlay
    \/ ToggleTimerFires
    \/ GalleryAccepted
    \/ EditModeButton
    \/ KeyPressed
    \/ ScalingModeChanged
    \/ DisplayChanged
    \/ TransparencyEdited
    \/ BgColorEdited
    \/ ScreensChanged

Spec == InitHost /\ [][Next]_vars

\* ------------------------------------------------------- the global hotkey
\* toggle signals that can wait in the UI thread's event queue
MaxQueued == 2

\* files the import dialog of main.py can return
ImportPaths == {"a.png", "anim.gif"}

\* main.py: AnyOverlay.__init__
NewMainApp ==
    [image_path |-> NoPath, display_index |-> 0, is_overlay_visible |-> FALSE,
     overlay_window |-> None]

\* main.py: AnyOverlay.create_overlay
main_create_overlay(a, count) ==
    IF a.image_path = NoPath THEN a
    ELSE IF a.display_index >= count THEN a
    ELSE [a EXCEPT !.overlay_window =
                       Some([image_path |-> a.image_path,
                             screen_geometry |-> ScreenGeometry(a.display_index),
                             shown |-> TRUE]),
                   !.is_overlay_visible = TRUE]

\* main.py: AnyOverlay.destroy_overlay
main_destroy_overlay(a) ==
    IF a.overlay_window # None
    THEN [a EXCEPT !.overlay_window = None, !.is_overlay_visible = FALSE]
    ELSE a

\* either host after construction, the hotkey registered with the keyboard listener
InitHotkey ==
    /\ program \in Programs
    /\ app = IF program = "main.py" THEN NewMainApp ELSE NewApp(NoPath, 0)
    /\ screen_count = 1
    /\ ui_events = 0
    /\ thread_pc = Idle
    /\ toggled_on = "none"
    /\ exc = "none"
    /\ owner = "AnyOverlay"
    /\ render_settings = DefaultSettings
    /\ max_cache_entries = 0
    /\ max_cache_size = 0
    /\ cache = EmptyCache
    /\ cache_order = <<>>
    /\ scaled_frame_cache = EmptyCache
    /\ frame_cache_order = <<>>
    /\ frame_count = 1
    /\ current_frame = 0
    /\ last = NoCall
    /\ access_order = <<>>
    /\ loop_calls = 0
    /\ widget = NewWidget(NoPath, <<4, 3>>)
    /\ painted = NoPaint

\* anyoverlay.py, on the listener thread: the hotkey callback
\* `lambda: self.overlay_toggle_signal.emit()`; the signal's receiver lives in the UI
\* thread, so the emission is queued for that thread's event loop
HotkeyPressed ==
    /\ Running
    /\ program = "anyoverlay.py"
    /\ ui_events < MaxQueued
    /\ ui_events' = ui_events + 1
    /\ UNCHANGED <<app, exc, screen_count, cache_state, widget_vars, program, thread_pc,
                   toggled_on>>

\* anyoverlay.py, on the UI thread: the event loop delivers a queued toggle signal to
\* its slot, toggle_overlay
ToggleSignalDelivered ==
    /\ Running
    /\ program = "anyoverlay.py"
    /\ ui_events > 0
    /\ ui_events' = ui_events - 1
    /\ app' = toggle_overlay_request(app)
    /\ UNCHANGED <<exc, screen_count, cache_state, widget_vars, program, thread_pc,
                   toggled_on>>

\* anyoverlay.py, on the UI thread: the Toggle Overlay button, pressed whether or not
\* the toggle timer is pending
ToggleButton ==
    /\ Running
    /\ program = "anyoverlay.py"
    /\ app' = toggle_overlay_request(app)
    /\ UNCHANGED <<exc, screen_count, cache_state, widget_vars, thread_vars>>

\* anyoverlay.py, on the UI thread: the toggle timer's timeout
ToggleTimeout == program = "anyoverlay.py" /\ ToggleTimerFires

\* anyoverlay.py, on the UI thread: an overlay is chosen in the gallery
OverlayChosen == program = "anyoverlay.py" /\ GalleryAccepted

\* main.py, on the UI thread: on_image_import
on_image_import(file_name) ==
    /\ Running
    /\ program = "main.py"
    /\ thread_pc["ui"] = "idle"
    /\ app' = [app EXCEPT !.image_path = file_name]
    /\ UNCHANGED <<exc, screen_count, cache_state, widget_vars, thread_vars>>

ImageImported ==
    \E file_name \in ImportPaths : file_name # app.image_path /\ on_image_import(file_name)

\* main.py: thread t enters toggle_overlay and tests is_overlay_visible.  The UI thread
\* runs it for the Toggle Overlay button; the listener thread runs it for the hotkey,
\* because keyboard.add_hotkey was given self.toggle_overlay itself.
main_toggle_overlay_test(t) ==
    /\ Running
    /\ program = "main.py"
    /\ thread_pc[t] = "idle"
    /\ thread_pc' = [thread_pc EXCEPT ![t] = IF app.is_overlay_visible
                                            THEN "destroy_overlay" ELSE "create_overlay"]
    /\ UNCHANGED <<app, exc, screen_count, cache_state, widget_vars, program, ui_events,
                   toggled_on>>

\* main.py: thread t runs the branch of toggle_overlay it chose
main_toggle_overlay_act(t) ==
    /\ Running
    /\ program = "main.py"
    /\ thread_pc[t] # "idle"
    /\ app' = IF thread_pc[t] = "destroy_overlay"
              THEN main_destroy_overlay(app)
              ELSE main_create_overlay(app, screen_count)
    /\ thread_pc' = [thread_pc EXCEPT ![t] = "idle"]
    /\ toggled_on' = t
    /\ UNCHANGED <<exc, screen_count, cache_state, widget_vars, program, ui_events>>

MainToggleBegins == \E t \in Threads : main_toggle_overlay_test(t)

MainToggleActs == \E t \in Threads : main_toggle_overlay_act(t)

NextHotkey ==
    \/ HotkeyPressed
    \/ ToggleSignalDelivered
    \/ ToggleButton
    \/ ToggleTimeout
    \/ OverlayChosen
    \/ ImageImported
    \/ MainToggleBegins
    \/ MainToggleActs

SpecHotkey == InitHotkey /\ [][NextHotkey]_vars

\* the same program with the toggle timer's timeout delivered once it is pending: a
\* started QTimer fires as long as the event loop runs
SpecDebounce == InitHotkey /\ [][NextHotkey]_vars /\ WF_vars(ToggleTimeout)

\* ------------------------------------------------------- scale adjustment
\* the scales are kept in hundredths: the step 0.1 and the limits 0.1 and 10.0
ScaleStep == 10
LowerLimit == 10
UpperLimit == 1000
\* increase_scale / decrease_scale calls followed in one behaviour
MaxScaleCalls == 3
\* scale values found in the settings when the calls start (the scale factor field
\* takes 0.01 to 500.0)
StoredScales == {5, 100, 995, 1000, 5000}

\* `if self.scaling_mode == 'tile'`: the setting the call adjusts
ScaleKey(mode) == IF mode = "tile" THEN "tile_scale" ELSE "scale_factor"

\* the new value: one step up or down, held at the limit when limits are enabled
NewScale(current, op, limits) ==
    IF op = "increase"
    THEN IF limits THEN Min(current + ScaleStep, UpperLimit) ELSE current + ScaleStep
    ELSE IF limits THEN Max(current - ScaleStep, LowerLimit) ELSE current - ScaleStep

\* the settings dict after the first half of increase_scale / decrease_scale
AdjustScale(settings, mode, op) ==
    LET key == ScaleKey(mode)
    IN  [settings EXCEPT ![key] = NewScale(settings[key], op, settings.enable_scale_limits)]

\* AnyOverlay.increase_scale / decrease_scale, as the n-th scale call
host_scale_call(op, n) ==
    /\ Running
    /\ render_settings' =
           save_settings(app, AdjustScale(render_settings, app.scaling_mode, op))
    /\ LET a == [app EXCEPT !.scale_call = [n |-> n, op |-> op, by |-> "AnyOverlay"]]
       IN  IF HasOverlay(a)
           THEN LET w == a.overlay_window[1]
                    w1 == IF a.scaling_mode = "tile" THEN w
                          ELSE [w EXCEPT !.scale_factor = render_settings'.scale_factor]
                IN  Commit(Applied(a, initImage(w1, render_settings')))
           ELSE Commit(HostDone(a))
    /\ UNCHANGED <<screen_count, widget_vars, thread_vars, owner, cache, cache_order,
                   max_cache_entries, scaled_frame_cache, frame_cache_order,
                   max_cache_size, frame_count, current_frame, last, access_order,
                   loop_calls>>

host_adjust_scale(op) ==
    /\ app.scale_call.n < MaxScaleCalls
    /\ host_scale_call(op, app.scale_call.n + 1)

increase_scale == host_adjust_scale("increase")

decrease_scale == host_adjust_scale("decrease")

\* OverlayWindow.increase_scale / decrease_scale: the shared dict is adjusted, then
\* initImage runs with the window's own scale_factor attribute
window_scale_call(op, n) ==
    /\ Running
    /\ app.overlay_window # None
    /\ LET w == app.overlay_window[1]
           a == [app EXCEPT !.scale_call =
                                [n |-> n, op |-> op, by |-> "OverlayWindow"]]
       IN  /\ render_settings' = AdjustScale(render_settings, w.scaling_mode, op)
           /\ Commit(Applied(a, initImage(w, render_settings')))
    /\ UNCHANGED <<screen_count, widget_vars, thread_vars, owner, cache, cache_order,
                   max_cache_entries, scaled_frame_cache, frame_cache_order,
                   max_cache_size, frame_count, current_frame, last, access_order,
                   loop_calls>>

window_adjust_scale(op) ==
    /\ app.scale_call.n < MaxScaleCalls
    /\ window_scale_call(op, app.scale_call.n + 1)

window_increase_scale == window_adjust_scale("increase")

window_decrease_scale == window_adjust_scale("decrease")

on_scale_limits_changed(state) ==
    /\ Running
    /\ render_settings' =
           save_settings(app, [render_settings EXCEPT !.enable_scale_limits = state])
    /\ UNCHANGED <<host_vars, widget_vars, thread_vars, owner, cache, cache_order,
                   max_cache_entries, scaled_frame_cache, frame_cache_order,
                   max_cache_size, frame_count, current_frame, last, access_order,
                   loop_calls, exc>>

ScaleLimitsChanged ==
    \E state \in BOOLEAN :
        /\ state # render_settings.enable_scale_limits
        /\ on_scale_limits_changed(state)

\* the host with the given image, mode and settings after its first toggle
ShownApp(path, mode, settings) ==
    create_overlay([NewApp(path, 0) EXCEPT !.scaling_mode = mode], 1, settings).app

\* a host whose overlay is shown or not, in tile mode or not, with stored scales
InitScale ==
    /\ \E factor \in StoredScales, ts \in StoredScales, limits \in BOOLEAN :
          render_settings = [DefaultSettings EXCEPT !.scale_factor = factor,
                                                      !.tile_scale = ts,
                                                      !.enable_scale_limits = limits]
    /\ \E mode \in {"fit", "tile"}, shown \in BOOLEAN :
          app = IF shown THEN ShownApp("a.png", mode, render_settings)
                ELSE [NewApp("a.png", 0) EXCEPT !.scaling_mode = mode]
    /\ screen_count = 1
    /\ exc = "none"
    /\ owner = "AnyOverlay"
    /\ max_cache_entries = 0
    /\ max_cache_size = 0
    /\ cache = EmptyCache
    /\ cache_order = <<>>
    /\ scaled_frame_cache = EmptyCache
    /\ frame_cache_order = <<>>
    /\ frame_count = 1
    /\ current_frame = 0
    /\ last = NoCall
    /\ access_order = <<>>
    /\ loop_calls = 0
    /\ widget = NewWidget(NoPath, <<4, 3>>)
    /\ painted = NoPaint
    /\ program = "anyoverlay.py"
    /\ ui_events = 0
    /\ thread_pc = Idle
    /\ toggled_on = "none"

NextScale ==
    \/ increase_scale
    \/ decrease_scale
    \/ window_increase_scale
    \/ window_decrease_scale
    \/ ScaleLimitsChanged
    \/ ScalingModeChanged

SpecScale == InitScale /\ [][NextScale]_vars

\* ------------------------------------------------------- repeated scale calls
\* one method, increase_scale or decrease_scale of one class, is called again and
\* again with the limits enabled; scale_call names the method and counts its first
\* MaxScaleCalls calls
RepeatedHostCall ==
    /\ app.scale_call.by = "AnyOverlay"
    /\ host_scale_call(app.scale_call.op, Min(app.scale_call.n + 1, MaxScaleCalls))

RepeatedWindowCall ==
    /\ app.scale_call.by = "OverlayWindow"
    /\ window_scale_call(app.scale_call.op, Min(app.scale_call.n + 1, MaxScaleCalls))

InitRepeat ==
    /\ \E factor \in StoredScales, ts \in StoredScales :
          render_settings = [DefaultSettings EXCEPT !.scale_factor = factor,
                                                      !.tile_scale = ts,
                                                      !.enable_scale_limits = TRUE]
    /\ \E mode \in {"fit", "tile"}, shown \in BOOLEAN,
          op \in {"increase", "decrease"}, by \in {"AnyOverlay", "OverlayWindow"} :
          /\ by = "OverlayWindow" => shown
          /\ app = [(IF shown THEN ShownApp("a.png", mode, render_settings)
                     ELSE [NewApp("a.png", 0) EXCEPT !.scaling_mode = mode])
                    EXCEPT !.scale_call = [n |-> 0, op |-> op, by |-> by]]
    /\ screen_count = 1
    /\ exc = "none"
    /\ owner = "AnyOverlay"
    /\ max_cache_entries = 0
    /\ max_cache_size = 0
    /\ cache = EmptyCache
    /\ cache_order = <<>>
    /\ scaled_frame_cache = EmptyCache
    /\ frame_cache_order = <<>>
    /\ frame_count = 1
    /\ current_frame = 0
    /\ last = NoCall
    /\ access_order = <<>>
    /\ loop_calls = 0
    /\ widget = NewWidget(NoPath, <<4, 3>>)
    /\ painted = NoPaint
    /\ program = "anyoverlay.py"
    /\ ui_events = 0
    /\ thread_pc = Idle
    /\ toggled_on = "none"

NextRepeat ==
    \/ RepeatedHostCall
    \/ RepeatedWindowCall

\* the method keeps being called
SpecRepeat == InitRepeat /\ [][NextRepeat]_vars /\ WF_vars(NextRepeat)

\* ------------------------------------------------------- the overlay under the mouse
\* how far a drag or resize may take the window's position and size
MaxDrift == 10
\* global pointer positions of the mouse events
MousePositions == {<<0, 0>>, <<10, 10>>, <<-100, -100>>}
MouseButtons == {"Left", "Right"}

\* defective variant: no minimum
AtLeastMinimumNone(v) == v

\* `max(..., 50)`: the smallest width and height a resize leaves
AtLeastMinimum(v) == Max(v, 50)

\* defective variant: the press is handled whatever the edit mode
MousePressAlways(w, button, pos) ==
    IF button = "Left"
    THEN [w EXCEPT !.dragging = TRUE, !.last_mouse_pos = Some(pos)]
    ELSE IF button = "Right"
    THEN [w EXCEPT !.resizing = TRUE, !.last_mouse_pos = Some(pos)]
    ELSE w

mousePressEvent(w, button, pos) ==
    IF w.edit_mode
    THEN IF button = "Left"
         THEN [w EXCEPT !.dragging = TRUE, !.last_mouse_pos = Some(pos)]
         ELSE IF button = "Right"
         THEN [w EXCEPT !.resizing = TRUE, !.last_mouse_pos = Some(pos)]
         ELSE w
    ELSE w

mouseMoveEvent(w, pos, settings) ==
    IF w.edit_mode
    THEN IF w.dragging
         THEN LET delta == <<pos[1] - w.last_mouse_pos[1][1], pos[2] - w.last_mouse_pos[1][2]>>
              IN  Done([w EXCEPT !.geometry.x = @ + delta[1], !.geometry.y = @ + delta[2],
                                 !.last_mouse_pos = Some(pos)])
         ELSE IF w.resizing
         THEN LET delta == <<pos[1] - w.last_mouse_pos[1][1], pos[2] - w.last_mouse_pos[1][2]>>
                  new_width == AtLeastMinimum(w.geometry.w + delta[1])
                  new_height == AtLeastMinimum(w.geometry.h + delta[2])
              IN  initImage([w EXCEPT !.geometry.w = new_width, !.geometry.h = new_height,
                                      !.last_mouse_pos = Some(pos)], settings)
         ELSE Done(w)
    ELSE Done(w)

mouseReleaseEvent(w) ==
    IF w.edit_mode THEN [w EXCEPT !.dragging = FALSE, !.resizing = FALSE] ELSE w

\* mouse events reach a window that is shown and not transparent for input
ReceivesMouse(a) ==
    /\ a.overlay_window # None
    /\ a.overlay_window[1].shown
    /\ ~a.overlay_window[1].deleted
    /\ ~a.overlay_window[1].transparent_for_input

\* the window stays near the screens
WithinDrift(w) ==
    /\ 0 <= w.geometry.x /\ w.geometry.x <= 100 * (MaxScreens - 1) + MaxDrift
    /\ 0 <= w.geometry.y /\ w.geometry.y <= MaxDrift
    /\ w.geometry.w <= ScreenSize[1] + 10 * (MaxScreens - 1) + MaxDrift
    /\ w.geometry.h <= ScreenSize[2] + MaxDrift

MousePressed ==
    \E button \in MouseButtons, pos \in MousePositions :
        /\ Running
        /\ ReceivesMouse(app)
        /\ Commit(HostDone(WithWindow(app, mousePressEvent(app.overlay_window[1],
                                                          button, pos))))
        /\ UNCHANGED <<screen_count, cache_state, widget_vars, thread_vars>>

MouseMoved ==
    \E pos \in MousePositions :
        /\ Running
        /\ ReceivesMouse(app)
        /\ LET r == mouseMoveEvent(app.overlay_window[1], pos, render_settings)
           IN  /\ WithinDrift(r.win)
               /\ Commit(Applied(app, r))
        /\ UNCHANGED <<screen_count, cache_state, widget_vars, thread_vars>>

MouseReleased ==
    /\ Running
    /\ ReceivesMouse(app)
    /\ Commit(HostDone(WithWindow(app, mouseReleaseEvent(app.overlay_window[1]))))
    /\ UNCHANGED <<screen_count, cache_state, widget_vars, thread_vars>>

on_scale_factor_changed(value) ==
    /\ Running
    /\ render_settings' =
           save_settings(app, [render_settings EXCEPT !.scale_factor = value])
    /\ IF HasOverlay(app)
       THEN Commit(Applied(app, initImage([app.overlay_window[1] EXCEPT
                                              !.scale_factor = value],
                                          render_settings')))
       ELSE Commit(HostDone(app))
    /\ UNCHANGED <<screen_count, widget_vars, thread_vars, owner, cache, cache_order,
                   max_cache_entries, scaled_frame_cache, frame_cache_order,
                   max_cache_size, frame_count, current_frame, last, access_order,
                   loop_calls>>

ScaleFactorChanged ==
    \E value \in ScaleFactors :
        /\ value # render_settings.scale_factor
        /\ on_scale_factor_changed(value)

\* the animation is chosen in the gallery in place of the still image
OverlayPicked == open_media_gallery("anim.gif")

\* the Escape key reaches the overlay
EscapePressed == keyPressEvent("Escape")

\* the host with an image chosen, before its first toggle
InitWindow ==
    /\ app = NewApp("a.png", 0)
    /\ render_settings = DefaultSettings
    /\ screen_count = MaxScreens
    /\ exc = "none"
    /\ owner = "AnyOverlay"
    /\ max_cache_entries = 0
    /\ max_cache_size = 0
    /\ cache = EmptyCache
    /\ cache_order = <<>>
    /\ scaled_frame_cache = EmptyCache
    /\ frame_cache_order = <<>>
    /\ frame_count = 1
    /\ current_frame = 0
    /\ last = NoCall
    /\ access_order = <<>>
    /\ loop_calls = 0
    /\ widget = NewWidget(NoPath, <<4, 3>>)
    /\ painted = NoPaint
    /\ program = "anyoverlay.py"
    /\ ui_events = 0
    /\ thread_pc = Idle
    /\ toggled_on = "none"

NextWindow ==
    \/ toggle_overlay
    \/ ToggleTimerFires
    \/ OverlayPicked
    \/ EditModeButton
    \/ EscapePressed
    \/ ScalingModeChanged
    \/ DisplayChanged
    \/ MousePressed
    \/ MouseMoved
    \/ MouseReleased
    \/ ScaleFactorChanged

SpecWindow == InitWindow /\ [][NextWindow]_vars

\* ------------------------------------------------------- mouse events in any mode
\* Input transparency is a request to the window system; here the handlers are run on
\* every shown window, in edit mode or not, as on a platform that still delivers the
\* events.  `last` records which handler ran.
MouseDelivered(a) ==
    /\ a.overlay_window # None
    /\ a.overlay_window[1].shown
    /\ ~a.overlay_window[1].deleted

\* the handler `op` ran on the window and left it as r.win
DeliverMouse(op, r) ==
    /\ Running
    /\ WithinDrift(r.win)
    /\ Commit(Applied(app, r))
    /\ last' = [NoCall EXCEPT !.op = op]
    /\ UNCHANGED <<screen_count, render_settings, owner, cache, cache_order,
                   max_cache_entries, scaled_frame_cache, frame_cache_order,
                   max_cache_size, frame_count, current_frame, access_order, loop_calls,
                   widget_vars, thread_vars>>

PressDelivered ==
    \E button \in MouseButtons, pos \in MousePositions :
        /\ MouseDelivered(app)
        /\ DeliverMouse("mousePressEvent",
                        Done(mousePressEvent(app.overlay_window[1], button, pos)))

MoveDelivered ==
    \E pos \in MousePositions :
        /\ MouseDelivered(app)
        /\ DeliverMouse("mouseMoveEvent",
                        mouseMoveEvent(app.overlay_window[1], pos, render_settings))

ReleaseDelivered ==
    /\ MouseDelivered(app)
    /\ DeliverMouse("mouseReleaseEvent", Done(mouseReleaseEvent(app.overlay_window[1])))

NextMouse ==
    \/ toggle_overlay
    \/ ToggleTimerFires
    \/ EditModeButton
    \/ EscapePressed
    \/ PressDelivered
    \/ MoveDelivered
    \/ ReleaseDelivered

SpecMouse == InitWindow /\ [][NextMouse]_vars

\* ------------------------------------------------------- the periodic update timer
\* Largest number of running timers a window is let to collect.
MaxTimers == 3

\* what the update-interval field can hold when editing ends
UpdateIntervalTexts == {[numeric |-> TRUE, value |-> 0], [numeric |-> TRUE, value |-> 16],
                        [numeric |-> TRUE, value |-> 33], [numeric |-> FALSE, value |-> 0]}
\* the update_interval a settings file can hold
StoredIntervals == {0, 16}

\* the body of on_update_interval_changed for a shown overlay: the window's timer takes
\* the new interval or is created, or is stopped and the attribute deleted
update_timer_changed(w, value) ==
    IF value > 0
    THEN IF w.update_timer # None
         THEN IF w.deleted THEN Raised(w, "RuntimeError")
              ELSE Done([w EXCEPT !.update_timer = Some(value)])
         ELSE IF w.deleted THEN Raised(w, "RuntimeError")
              ELSE Done([w EXCEPT !.update_timer = Some(value),
                                  !.running_timers = @ + 1])
    ELSE IF w.update_timer # None
         THEN IF w.deleted THEN Raised(w, "RuntimeError")
              ELSE Done([w EXCEPT !.update_timer = None, !.running_timers = @ - 1])
         ELSE Done(w)

on_update_interval_changed(text) ==
    /\ Running
    /\ IF text.numeric
       THEN LET a == [app EXCEPT !.advanced_settings =
                                     Put(@, "update_interval", text.value)]
            IN  /\ render_settings' = save_settings(a, render_settings)
                /\ IF HasOverlay(a)
                   THEN Commit(Applied(a, update_timer_changed(a.overlay_window[1],
                                                               text.value)))
                   ELSE Commit(HostDone(a))
       ELSE \* ValueError: warning, the field is reset to
            \* self.advanced_settings['update_interval']
            /\ exc' = IF "update_interval" \in DOMAIN app.advanced_settings
                      THEN "none" ELSE "KeyError"
            /\ UNCHANGED <<app, render_settings>>
    /\ UNCHANGED <<screen_count, cache_rest, widget_vars, thread_vars>>

UpdateIntervalEdited == \E text \in UpdateIntervalTexts : on_update_interval_changed(text)

\* the window, if there is one, has room for another timer
TimersBelowMax ==
    app.overlay_window # None => app.overlay_window[1].running_timers < MaxTimers

TransparencyEditedShown == TimersBelowMax /\ TransparencyEdited

BgColorEditedShown == TimersBelowMax /\ BgColorEdited

\* the host after load_settings of a file naming a still image and an update interval
InitTimer ==
    /\ \E interval \in StoredIntervals :
          app = [NewApp("a.png", 0) EXCEPT !.advanced_settings.update_interval = interval]
    /\ render_settings = DefaultSettings
    /\ screen_count = MaxScreens
    /\ exc = "none"
    /\ owner = "AnyOverlay"
    /\ max_cache_entries = 0
    /\ max_cache_size = 0
    /\ cache = EmptyCache
    /\ cache_order = <<>>
    /\ scaled_frame_cache = EmptyCache
    /\ frame_cache_order = <<>>
    /\ frame_count = 1
    /\ current_frame = 0
    /\ last = NoCall
    /\ access_order = <<>>
    /\ loop_calls = 0
    /\ widget = NewWidget(NoPath, <<4, 3>>)
    /\ painted = NoPaint
    /\ program = "anyoverlay.py"
    /\ ui_events = 0
    /\ thread_pc = Idle
    /\ toggled_on = "none"

NextTimer ==
    \/ toggle_overlay
    \/ ToggleTimerFires
    \/ UpdateIntervalEdited
    \/ TransparencyEditedShown
    \/ BgColorEditedShown

SpecTimer == InitTimer /\ [][NextTimer]_vars

\* ------------------------------------------------------- rendering sizes
\* target sizes of other shapes than the 4 x 3 source: wider, and twice as large
RenderTargets == {<<4, 3>>, <<6, 3>>, <<8, 6>>}

\* a renderer that keeps one bitmap
InitRender ==
    /\ owner = "CachedImageRenderer"
    /\ \E antialias \in BOOLEAN :
          render_settings = [DefaultSettings EXCEPT !.cache_size = 1,
                                                      !.enable_antialiasing = antialias]
    /\ max_cache_entries = 1
    /\ max_cache_size = 1
    /\ cache = EmptyCache
    /\ cache_order = <<>>
    /\ scaled_frame_cache = EmptyCache
    /\ frame_cache_order = <<>>
    /\ frame_count = 1
    /\ current_frame = 0
    /\ last = NoCall
    /\ access_order = <<>>
    /\ loop_calls = 0
    /\ exc = "none"
    /\ app = NewApp(NoPath, 0)
    /\ screen_count = 1
    /\ widget = NewWidget(NoPath, <<4, 3>>)
    /\ painted = NoPaint
    /\ program = "anyoverlay.py"
    /\ ui_events = 0
    /\ thread_pc = Idle
    /\ toggled_on = "none"

RenderCall ==
    \E image_path \in ImagePaths, target_size \in RenderTargets,
       scaling_mode \in LoadModes, scale_factor \in ScaleFactors :
        /\ Running
        /\ load_image(image_path, target_size, scaling_mode, scale_factor)
        /\ UNCHANGED <<host_vars, widget_vars, thread_vars, owner, max_cache_entries,
                       scaled_frame_cache, frame_cache_order, max_cache_size,
                       render_settings, frame_count, current_frame, loop_calls>>

NextRender == RenderCall

SpecRender == InitRender /\ [][NextRender]_vars

\* ------------------------------------------------------- loading the settings file
\* the top-level fields of the settings record and the keys of its advanced_settings
TopFields == {"image_path", "display_index", "scaling_mode", "advanced_settings"}
RenderKeys == {"enable_antialiasing", "enable_hardware_acceleration", "cache_size",
               "tile_scale", "scale_factor", "enable_scale_limits"}
HostKeys == {"transparency", "background_color"}
AdvancedKeys == RenderKeys \cup HostKeys
\* what a stored record holds in the fields it has
StoredTop == [image_path |-> "a.png", display_index |-> 1, scaling_mode |-> "tile"]
StoredAdvanced ==
    [enable_antialiasing |-> FALSE, enable_hardware_acceleration |-> FALSE,
     cache_size |-> 1, tile_scale |-> 50, scale_factor |-> 50,
     enable_scale_limits |-> FALSE, transparency |-> 128, background_color |-> "#ffffff"]
\* the records a settings file can hold: any field and any advanced setting absent
StoredRecords ==
    {record \in [top : SUBSET TopFields, advanced : SUBSET AdvancedKeys] :
        "advanced_settings" \notin record.top => record.advanced = {}}
\* what the tile scale field can hold when editing ends
TileScaleTexts == {[numeric |-> TRUE, value |-> 50], [numeric |-> FALSE, value |-> 0]}

\* AnyOverlay.load_settings of an existing file: each top-level field is read with
\* get and a default, advanced_settings is replaced by the stored dict; a KeyError of
\* the indexed reads that fill the input fields is caught and printed
load_settings(record) ==
    /\ Running
    /\ last.op = "init"
    /\ LET stored == "advanced_settings" \in record.top
       IN  /\ app' = [app EXCEPT
                        !.image_path = IF "image_path" \in record.top
                                       THEN StoredTop.image_path ELSE NoPath,
                        !.display_index = IF "display_index" \in record.top
                                          THEN StoredTop.display_index ELSE 0,
                        !.scaling_mode = IF "scaling_mode" \in record.top
                                         THEN StoredTop.scaling_mode ELSE "fit",
                        !.advanced_settings =
                            IF stored
                            THEN Restrict(StoredAdvanced, record.advanced \cap HostKeys)
                            ELSE @]
           /\ render_settings' =
                  IF stored THEN Restrict(StoredAdvanced, record.advanced \cap RenderKeys)
                  ELSE render_settings
    /\ exc' = "none"
    /\ last' = [NoCall EXCEPT !.op = "load_settings"]
    /\ UNCHANGED <<screen_count, widget_vars, thread_vars, owner, cache, cache_order,
                   max_cache_entries, scaled_frame_cache, frame_cache_order,
                   max_cache_size, frame_count, current_frame, access_order, loop_calls>>

SettingsLoaded == \E record \in StoredRecords : load_settings(record)

\* AnyOverlay.on_tile_scale_changed with the text of the field
on_tile_scale_text(text) ==
    IF text.numeric
    THEN on_tile_scale_changed(text.value)
    ELSE \* ValueError: warning, the field is reset to self.advanced_settings['tile_scale']
         /\ Running
         /\ owner # "CachedImageRenderer"
         /\ exc' = IF "tile_scale" \in DOMAIN render_settings THEN "none" ELSE "KeyError"
         /\ UNCHANGED <<host_vars, widget_vars, thread_vars, cache_state>>

TileScaleEdited ==
    /\ last.op = "load_settings"
    /\ \E text \in TileScaleTexts : on_tile_scale_text(text)

TransparencyEditedLater == last.op = "load_settings" /\ TransparencyEdited

BgColorEditedLater == last.op = "load_settings" /\ BgColorEdited

\* the host inside __init__, before load_settings
InitLoad ==
    /\ app = NewApp(NoPath, 0)
    /\ render_settings = DefaultSettings
    /\ screen_count = MaxScreens
    /\ exc = "none"
    /\ owner = "AnyOverlay"
    /\ max_cache_entries = 0
    /\ max_cache_size = 0
    /\ cache = EmptyCache
    /\ cache_order = <<>>
    /\ scaled_frame_cache = EmptyCache
    /\ frame_cache_order = <<>>
    /\ frame_count = 1
    /\ current_frame = 0
    /\ last = NoCall
    /\ access_order = <<>>
    /\ loop_calls = 0
    /\ widget = NewWidget(NoPath, <<4, 3>>)
    /\ painted = NoPaint
    /\ program = "anyoverlay.py"
    /\ ui_events = 0
    /\ thread_pc = Idle
    /\ toggled_on = "none"

NextLoad ==
    \/ SettingsLoaded
    \/ TileScaleEdited
    \/ TransparencyEditedLater
    \/ BgColorEditedLater

SpecLoad == InitLoad /\ [][NextLoad]_vars

\* ------------------------------------------------------- mouse and rebuild claims
\* C11 (as stated): turning edit mode off while a drag or a resize is in progress
\* leaves the window with dragging = false and resizing = false.
C11_Original ==
    [][ ( /\ app.overlay_window # None
          /\ ~app.overlay_window[1].deleted
          /\ app.overlay_window[1].edit_mode
          /\ (app.overlay_window[1].dragging \/ app.overlay_window[1].resizing)
          /\ app'.overlay_window # None
          /\ ~app'.overlay_window[1].edit_mode )
        => ( /\ ~app'.overlay_window[1].dragging
             /\ ~app'.overlay_window[1].resizing ) ]_vars

\* the visual initImage builds for the window's present path, mode, size and scale
CurrentVisual == initImage(app.overlay_window[1], render_settings).win.label

\* a step in which a mouse move resized the window
ResizeStep ==
    /\ app.overlay_window # None
    /\ app'.overlay_window # None
    /\ app.overlay_window[1].edit_mode
    /\ app.overlay_window[1].resizing
    /\ ~app.overlay_window[1].dragging
    /\ app'.overlay_window[1].resizing
    /\ app'.overlay_window[1].last_mouse_pos # app.overlay_window[1].last_mouse_pos
    /\ app'.overlay_window[1].geometry # app.overlay_window[1].geometry

\* C24: after every mouse move of a right-button resize drag in edit mode the window
\* is at least 50 wide and at least 50 high, whatever the mouse delta.
C24_ResizeKeepsMinimum ==
    [][ ResizeStep => /\ app'.overlay_window[1].geometry.w >= 50
                      /\ app'.overlay_window[1].geometry.h >= 50 ]_vars

\* a resize drag whose last move went 100 to the left and up of a 60 wide window and
\* left it 50 by 50
C24_Witness ==
    /\ app.overlay_window # None
    /\ app.overlay_window[1].edit_mode
    /\ app.overlay_window[1].resizing
    /\ ~app.overlay_window[1].dragging
    /\ app.overlay_window[1].last_mouse_pos = Some(<<-100, -100>>)
    /\ app.overlay_window[1].geometry.w = 50
    /\ app.overlay_window[1].geometry.h = 50

\* C25: pressing Escape on the overlay leaves the overlay's edit_mode false and the
\* window transparent for input, whatever the edit state was before.
C25_EscapeExitsEditMode ==
    [][ keyPressEvent("Escape")
        => /\ ~app'.overlay_window[1].edit_mode
           /\ app'.overlay_window[1].transparent_for_input ]_vars

\* Escape was pressed during a resize in edit mode: the host's button is still
\* checked, the overlay has left edit mode and lets input through
C25_Witness ==
    /\ app.overlay_window # None
    /\ app.edit_mode
    /\ app.overlay_window[1].resizing
    /\ ~app.overlay_window[1].edit_mode
    /\ app.overlay_window[1].transparent_for_input

\* a text of the form #RRGGBB: `#` and six hexadecimal digits
HexDigits == {"0", "1", "2", "3", "4", "5", "6", "7", "8", "9",
              "a", "b", "c", "d", "e", "f", "A", "B", "C", "D", "E", "F"}
IsRRGGBB(color) ==
    /\ Len(Chars[color]) = 7
    /\ Chars[color][1] = "#"
    /\ \A i \in 2 .. 7 : Chars[color][i] \in HexDigits

\* C26 (as stated): an edit that ends with a non-numeric or out-of-range transparency,
\* or with a background color not of the form #RRGGBB, leaves the stored settings as
\* they were and re-renders nothing.
C26_Original ==
    [][ /\ \A text \in TransparencyTexts :
              ( /\ ~(text.numeric /\ 0 <= text.value /\ text.value <= 255)
                /\ on_transparency_changed(text) )
              => UNCHANGED <<app, render_settings>>
        /\ \A color \in ColorTexts :
              (~IsRRGGBB(color) /\ on_bg_color_changed(color))
              => UNCHANGED <<app, render_settings>> ]_vars

\* the host's advanced_settings dict as a whole
WholeDict == render_settings @@ app.advanced_settings
DefaultDict == DefaultSettings @@ NewApp(NoPath, 0).advanced_settings

\* C28 (as stated): loading a record in which any field is absent raises nothing,
\* leaves each absent field (top-level or inside advanced_settings) at its default and
\* applies each field that is present; afterwards no handler fails to read a setting.
C28_Original ==
    /\ [][ \A record \in StoredRecords :
              load_settings(record)
              => /\ exc' = "none"
                 /\ app'.image_path = IF "image_path" \in record.top
                                      THEN StoredTop.image_path ELSE NoPath
                 /\ app'.display_index = IF "display_index" \in record.top
                                         THEN StoredTop.display_index ELSE 0
                 /\ app'.scaling_mode = IF "scaling_mode" \in record.top
                                        THEN StoredTop.scaling_mode ELSE "fit"
                 /\ \A k \in AdvancedKeys :
                       /\ k \in DOMAIN WholeDict'
                       /\ WholeDict'[k] = IF k \in record.advanced
                                          THEN StoredAdvanced[k] ELSE DefaultDict[k] ]_vars
    /\ [](exc = "none")

\* the bitmap the last load_image call returned, and the box of a fit call
ReturnedSize == <<last.result[1].w, last.result[1].h>>
FitBox == <<Max(1, ScaledInt(last.key[2][1], last.key[4])),
            Max(1, ScaledInt(last.key[2][2], last.key[4]))>>

\* C29 (as stated): in fit mode load_image returns a bitmap with the source image's
\* aspect ratio, the largest such size inside the box (targetWidth*scaleFactor,
\* targetHeight*scaleFactor); with a 4:3 source and a 4:3 target it is the box itself.
C29_Original ==
    (last.op = "load_image" /\ last.key[3] = "fit" /\ last.result # None)
    => ReturnedSize = KeepAspectSize(SourceSize(last.key[1]), FitBox)

\* C30 (as stated): in center mode load_image returns a bitmap of the source image's
\* own size, whatever the target size and the scale factor.
C30_Original ==
    (last.op = "load_image" /\ last.key[3] = "center" /\ last.result # None)
    => ReturnedSize = SourceSize(last.key[1])

\* C13 (as stated): whenever a handler has returned and the overlay is visible, its
\* visual is the one built for the current image path, mode, window size and scale.
C13_Original ==
    ( /\ Running
      /\ HasOverlay(app)
      /\ ~app.overlay_window[1].deleted )
    => app.overlay_window[1].label = CurrentVisual

\* ------------------------------------------------------- hotkey claim
\* C12 (as stated): in both hosts, no overlay is created or destroyed on the keyboard
\* listener's thread; the listener only queues a toggle event for the UI thread.
C12_Original == toggled_on # "listener"

\* ------------------------------------------------------- scale claims
\* a step that is an increase_scale or decrease_scale call
ScaleCallStep == app'.scale_call.n = app.scale_call.n + 1

\* the mode the called object tests
CallMode ==
    IF app'.scale_call.by = "OverlayWindow"
    THEN app.overlay_window[1].scaling_mode
    ELSE app.scaling_mode

\* C20 (as stated): increase_scale and decrease_scale change tile_scale and leave
\* scale_factor alone in tile mode, change scale_factor and leave tile_scale alone in
\* every other mode; the change is one step of 0.1 up or down unless the limits hold
\* the value at 10.0 or 0.1.
C20_Original ==
    [][ ScaleCallStep =>
          LET up == app'.scale_call.op = "increase"
              limits == render_settings.enable_scale_limits
              moved(old, new) ==
                  \/ new = IF up THEN old + 10 ELSE old - 10
                  \/ limits /\ new = (IF up THEN 1000 ELSE 10)
                            /\ (IF up THEN old + 10 > 1000 ELSE old - 10 < 10)
          IN  IF CallMode = "tile"
              THEN /\ moved(render_settings.tile_scale, render_settings'.tile_scale)
                   /\ render_settings'.scale_factor = render_settings.scale_factor
              ELSE /\ moved(render_settings.scale_factor, render_settings'.scale_factor)
                   /\ render_settings'.tile_scale = render_settings.tile_scale ]_vars

\* the setting a scale call adjusted, before and after the call
AdjustedBefore == render_settings[ScaleKey(CallMode)]
AdjustedAfter == render_settings'[ScaleKey(CallMode)]

\* C21 (as stated): with enable_scale_limits on, the scale an increase_scale or
\* decrease_scale call leaves behind lies within [0.1, 10.0].
C21_Original ==
    [][ (ScaleCallStep /\ render_settings.enable_scale_limits)
        => (LowerLimit <= AdjustedAfter /\ AdjustedAfter <= UpperLimit) ]_vars

\* C27 (as stated): in every reachable state scale_factor > 0, tile_scale > 0 and
\* transparency lies in 0..255.
C27_Original ==
    /\ render_settings.scale_factor > 0
    /\ render_settings.tile_scale > 0
    /\ app.advanced_settings.transparency \in 0 .. 255

\* the scale the repeated method adjusts, and the limit on its side
RepeatScale == render_settings[ScaleKey(app.scaling_mode)]
RepeatLimit == IF app.scale_call.op = "increase" THEN UpperLimit ELSE LowerLimit

\* C22 (as stated): with limits enabled, repeated increase_scale calls never decrease
\* the scale, repeated decrease_scale calls never increase it, and the scale reaches
\* exactly 10.0 (0.1 for decrease) after finitely many calls and stays there.
C22_Original ==
    /\ [][ IF app.scale_call.op = "increase"
           THEN RepeatScale' >= RepeatScale
           ELSE RepeatScale' <= RepeatScale ]_vars
    /\ <>[](RepeatScale = RepeatLimit)

\* the scale a call computes from the value it finds
ComputedScale ==
    NewScale(AdjustedBefore, app'.scale_call.op, render_settings.enable_scale_limits)

\* C23 (as stated): when an increase_scale or decrease_scale call on a shown overlay
\* computes a scale different from the current one, then on return the settings hold
\* the computed scale and the overlay renders with it (the window's scale_factor, or
\* tile_scale in tile mode, equals it and the visual is built with it).
C23_Original ==
    [][ (ScaleCallStep /\ HasOverlay(app) /\ ComputedScale # AdjustedBefore)
        => /\ AdjustedAfter = ComputedScale
           /\ CallMode # "tile" => app'.overlay_window[1].scale_factor = ComputedScale
           /\ app'.overlay_window[1].label =
                  initImage(app'.overlay_window[1], render_settings').win.label ]_vars

\* ------------------------------------------------------- tiled widget claims
PaintOps == {"paintEvent", "update_frame"}

\* a step in which a paint handler ran calculate_tile_positions
CalcStep ==
    /\ painted'.op \in PaintOps
    /\ current_frame' = current_frame
    /\ render_settings' = render_settings
    /\ exc' = "none"
    /\ last'.result # None

\* the size of the tile the paint handler of this step passed on
StepTile == <<last'.result[1].w, last'.result[1].h>>

CeilDiv(a, b) == (a + b - 1) \div b

\* C14: while the animated tile widget is hidden its frame timer is inactive, and no
\* step made while it stays hidden scales a frame, touches the frame cache or draws.
C14_HiddenDoesNoWork ==
    [][ /\ ~widget.visible => ~widget.frame_timer_active
        /\ ~widget'.visible => ~widget'.frame_timer_active
        /\ (~widget.visible /\ ~widget'.visible) =>
              /\ scaled_frame_cache' = scaled_frame_cache
              /\ frame_cache_order' = frame_cache_order
              /\ cache' = cache
              /\ painted'.drawn = 0
              /\ painted'.scaled = 0 ]_vars

\* the widget was painted, then hidden, and the movie moved on while it was hidden
C14_Witness ==
    /\ owner = "TiledGIFWidget"
    /\ ~widget.visible
    /\ painted.op = "hideEvent"
    /\ painted.frame # None
    /\ current_frame # painted.frame[1]

\* C15 (as stated): the first frame painted after a show is the frame that was
\* displayed when the widget was hidden, or its immediate successor.
C15_Original ==
    [][ ( /\ owner = "TiledGIFWidget"
          /\ painted.op = "showEvent"
          /\ painted.frame # None
          /\ painted'.op \in PaintOps
          /\ painted'.frame # None
          /\ current_frame' = current_frame )
        => painted'.frame[1] \in {painted.frame[1],
                                  (painted.frame[1] + 1) % frame_count} ]_vars

\* C16: the positions computed for a widget of size W x H and a tile of size w x h are
\* ceil(W/w) * ceil(H/h) origins, the first (0, 0), the last
\* ((ceil(W/w)-1)*w, (ceil(H/h)-1)*h); 1920x1080 with 100x50 gives 440 ending at
\* (1900, 1050).
C16_CountFirstLast ==
    /\ LET example == TilePositions(<<1920, 1080>>, <<100, 50>>)
       IN  Len(example) = 440 /\ example[1] = <<0, 0>> /\ example[440] = <<1900, 1050>>
    /\ widget.last_size # None =>
          LET size == widget.last_size[1]
              tile == widget.last_tile_size[1]
              nx == CeilDiv(size[1], tile[1])
              ny == CeilDiv(size[2], tile[2])
          IN  /\ tile[1] >= 1 /\ tile[2] >= 1
              /\ Len(widget.tile_positions) = nx * ny
              /\ widget.tile_positions[1] = <<0, 0>>
              /\ widget.tile_positions[nx * ny] = <<(nx - 1) * tile[1], (ny - 1) * tile[2]>>

\* positions computed for a tile that does not divide the widget's size
C16_Witness ==
    /\ widget.last_size = Some(<<5, 3>>)
    /\ widget.last_tile_size = Some(<<4, 2>>)
    /\ Len(widget.tile_positions) = 4
    /\ widget.tile_positions[4] = <<4, 2>>

\* C17: the tiles at the computed origins do not overlap and cover the target: every
\* origin is a multiple of (w, h) inside the target, none occurs twice, and every pixel
\* of [0, W) x [0, H) lies in exactly one tile.
C17_TilesPartitionTarget ==
    widget.last_size # None =>
       LET size == widget.last_size[1]
           tile == widget.last_tile_size[1]
           pos == widget.tile_positions
           covers(i, px, py) == /\ pos[i][1] <= px /\ px < pos[i][1] + tile[1]
                                /\ pos[i][2] <= py /\ py < pos[i][2] + tile[2]
       IN  /\ \A i \in DOMAIN pos :
                 /\ pos[i][1] % tile[1] = 0 /\ pos[i][2] % tile[2] = 0
                 /\ 0 <= pos[i][1] /\ pos[i][1] < size[1]
                 /\ 0 <= pos[i][2] /\ pos[i][2] < size[2]
           /\ \A i, j \in DOMAIN pos : pos[i] = pos[j] => i = j
           /\ \A px \in 0 .. (size[1] - 1), py \in 0 .. (size[2] - 1) :
                 Cardinality({i \in DOMAIN pos : covers(i, px, py)}) = 1

\* several tiles, those of the last column reaching over the target's right edge
C17_Witness ==
    /\ widget.last_size = Some(<<5, 3>>)
    /\ widget.last_tile_size = Some(<<2, 1>>)
    /\ Len(widget.tile_positions) = 9

\* C18: a call with unchanged widget size and tile size recomputes nothing and leaves
\* the position list as it was; a call after either changed computes the positions of
\* the new pair and remembers the pair.
C18_Memoized ==
    [][ CalcStep =>
          IF Some(widget.size) = widget.last_size /\ Some(StepTile) = widget.last_tile_size
          THEN /\ ~painted'.recomputed
               /\ widget'.tile_positions = widget.tile_positions
               /\ widget'.last_size = widget.last_size
               /\ widget'.last_tile_size = widget.last_tile_size
          ELSE /\ painted'.recomputed
               /\ widget'.tile_positions = TilePositions(widget.size, StepTile)
               /\ widget'.last_size = Some(widget.size)
               /\ widget'.last_tile_size = Some(StepTile) ]_vars

\* a paint that found the remembered pair unchanged and left a grid of several tiles
\* in place
C18_Witness ==
    /\ painted.op \in PaintOps
    /\ ~painted.recomputed
    /\ Len(widget.tile_positions) > 1
    /\ widget.last_size = Some(widget.size)

\* C19 (as stated): a paint with unchanged widget size and unchanged tile reallocates
\* no buffer and draws no tile into the buffer.
C19_Original ==
    [][ ( /\ CalcStep
          /\ owner = "TiledImageWidget"
          /\ Some(widget.size) = widget.last_size
          /\ Some(StepTile) = widget.last_tile_size
          /\ widget.buffer_size = Some(widget.size) )
        => /\ ~painted'.reallocated
           /\ painted'.composited = 0 ]_vars

\* ------------------------------------------------------- cache claims
\* the cache, recency order and capacity of the object that was constructed
CurCache == IF owner = "CachedImageRenderer" THEN cache ELSE scaled_frame_cache
CurOrder == IF owner = "CachedImageRenderer" THEN cache_order ELSE frame_cache_order
CurMax == IF owner = "CachedImageRenderer" THEN max_cache_entries ELSE max_cache_size
Gets == {"load_image", "get_scaled_frame"}
\* a step in which a get was made (a repeated identical hit changes nothing at all)
GetStep == last'.op \in Gets /\ (last' # last \/ CurOrder' # CurOrder)
OthersOf(order, key) == SelectSeq(order, LAMBDA k : k # key)

\* C1: with a capacity of at least 1, neither cache ever holds more entries than
\* its capacity, whatever mix of hits, misses and failed decodes was requested.
C1_SizeWithinCapacity ==
    /\ max_cache_entries >= 1 => Cardinality(DOMAIN cache) <= max_cache_entries
    /\ max_cache_size >= 1 => Cardinality(DOMAIN scaled_frame_cache) <= max_cache_size

\* C1 witness: a full image cache from which a miss has just evicted an entry.
C1_Witness ==
    /\ owner = "CachedImageRenderer"
    /\ last.op = "load_image" /\ last.evicted # None
    /\ Cardinality(DOMAIN cache) = max_cache_entries
    /\ max_cache_entries >= 2

\* C2: a get that inserts a new key into a full cache removes exactly one entry, the
\* one least recently accessed (by insertion or hit); a get that inserts into a cache
\* that is not full removes nothing.
C2_EvictsLeastRecentlyUsed ==
    [][LET added == DOMAIN CurCache' \ DOMAIN CurCache
           removed == DOMAIN CurCache \ DOMAIN CurCache'
       IN  added # {} =>
             IF Cardinality(DOMAIN CurCache) >= CurMax
             THEN /\ access_order # <<>>
                  /\ removed = {Head(access_order)}
                  /\ last'.evicted = Some(Head(access_order))
             ELSE removed = {}]_vars

\* C2 witness: an eviction has happened in a cache of capacity 2, and the evicted key
\* was accessed before the key that stayed.
C2_Witness ==
    /\ owner = "CachedImageRenderer"
    /\ max_cache_entries = 2
    /\ last.op = "load_image" /\ ~last.hit /\ last.evicted # None
    /\ Len(cache_order) = 2

\* C3: after a get that returns a bitmap the requested key is last in the recency
\* order; a hit keeps the same keys and the relative order of all the other keys.
C3_RequestedKeyIsLast ==
    [][GetStep /\ last'.result # None =>
          /\ CurOrder' # <<>>
          /\ CurOrder'[Len(CurOrder')] = last'.key
          /\ last'.hit =>
               /\ Len(CurOrder') = Len(CurOrder)
               /\ OthersOf(CurOrder', last'.key) = OthersOf(CurOrder, last'.key)]_vars

\* C3 witness: a hit on a key of a cache holding two keys has put that key last.
C3_Witness ==
    /\ last.op \in Gets /\ last.hit
    /\ Len(CurOrder) >= 2
    /\ CurOrder[Len(CurOrder)] = last.key

\* C4: a get of a key that is cached returns the bitmap stored under that key, decodes
\* and scales nothing, and leaves the set of cached keys as it was; a stored bitmap
\* never changes while its key stays cached.
C4_HitReturnsStoredBitmap ==
    [][/\ \A k \in DOMAIN CurCache \cap DOMAIN CurCache' : CurCache'[k] = CurCache[k]
       /\ (GetStep /\ last'.key \in DOMAIN CurCache) =>
             /\ last'.result = Some(CurCache[last'.key])
             /\ ~last'.decoded
             /\ DOMAIN CurCache' = DOMAIN CurCache]_vars

\* C4 witness: a hit returned a bitmap that a fresh scale under the settings of the
\* moment would not have produced (it was stored under the other antialiasing setting).
C4_Witness ==
    /\ owner = "CachedImageRenderer"
    /\ last.op = "load_image" /\ last.hit
    /\ last.result[1].transform \notin {"none", TransformMode(render_settings)}

\* C5 as stated: at any capacity, every get_scaled_frame call that follows a complete
\* loop of the animation at one scale is a hit.
C5_Original ==
    (owner = "TiledGIFWidget" /\ last.op = "get_scaled_frame"
        /\ loop_calls > frame_count) => last.hit

\* C5 amended: when the animation has no more frames than the cache has entries, every
\* get_scaled_frame call that follows a complete loop at one scale is a hit.
C5_HitsAfterFirstLoop ==
    (owner = "TiledGIFWidget" /\ last.op = "get_scaled_frame"
        /\ loop_calls > frame_count /\ frame_count <= max_cache_size) => last.hit

\* C5 witness: a two-frame animation has gone round once at one scale and the next
\* call was a hit.
C5_Witness ==
    /\ owner = "TiledGIFWidget" /\ last.op = "get_scaled_frame"
    /\ frame_count >= 2 /\ frame_count <= max_cache_size
    /\ loop_calls > frame_count /\ last.hit

\* C6 as stated: a change of the cache-size setting leaves the cache mapping and its
\* recency order empty.
C6_Original ==
    [][render_settings'.cache_size # render_settings.cache_size =>
          /\ cache' = EmptyCache /\ cache_order' = <<>>
          /\ scaled_frame_cache' = EmptyCache /\ frame_cache_order' = <<>>]_vars

\* C31: a load_image call whose source cannot be decoded returns no bitmap and leaves
\* the cache mapping and the recency order exactly as they were; a key of such a source
\* is never cached, so every later request for it attempts the decode again.
C31_FailedDecodeLeavesCache ==
    [][\A image_path \in ImagePaths, target_size \in TargetSizes,
          scaling_mode \in LoadModes, scale_factor \in ScaleFactors :
          (/\ owner = "CachedImageRenderer"
           /\ ~CanDecode(image_path)
           /\ load_image(image_path, target_size, scaling_mode, scale_factor)) =>
             /\ last'.result = None
             /\ last'.decoded /\ ~last'.hit
             /\ cache' = cache
             /\ cache_order' = cache_order
             /\ exc' = "none"
             /\ \A k \in DOMAIN cache' : CanDecode(k[1])]_vars

\* C31 witness: a decode has just failed on a full cache of capacity 2, whose two
\* entries are still there.
C31_Witness ==
    /\ owner = "CachedImageRenderer"
    /\ last.op = "load_image" /\ last.result = None /\ last.decoded
    /\ ~CanDecode(last.key[1])
    /\ max_cache_entries = 2
    /\ Len(cache_order) = 2 /\ Cardinality(DOMAIN cache) = 2

\* the set of keys a recency order lists
KeysOf(order) == {order[i] : i \in 1 .. Len(order)}

\* C32: in every reachable state of each cache the recency order lists exactly the keys
\* of the cache mapping, each exactly once: equal length and the same key set.
C32_OrderListsCachedKeys ==
    /\ Len(cache_order) = Cardinality(DOMAIN cache)
    /\ KeysOf(cache_order) = DOMAIN cache
    /\ Len(frame_cache_order) = Cardinality(DOMAIN scaled_frame_cache)
    /\ KeysOf(frame_cache_order) = DOMAIN scaled_frame_cache

\* C32 witness: a frame cache of capacity 2 has just evicted a key to store another and
\* holds two keys again.
C32_Witness ==
    /\ owner = "TiledGIFWidget"
    /\ max_cache_size = 2
    /\ last.op = "get_scaled_frame" /\ last.evicted # None
    /\ Len(frame_cache_order) = 2
    /\ last.evicted[1] \notin DOMAIN scaled_frame_cache

\* ------------------------------------------------------- host and window claims
LiveWindow == app.overlay_window # None /\ ~app.overlay_window[1].deleted
\* a step in which the toggle timer fired and perform_toggle ran
ToggleStep == app.toggle_timer_active /\ ~app'.toggle_timer_active
\* the still image at the host's current path exists and cannot be decoded
UndecodableStill ==
    FileExists(app.image_path) /\ ~IsGif(app.image_path) /\ ~CanDecode(app.image_path)

\* C7 as stated: with an undecodable still image at the current path no handler
\* raises while building the window's visual, and a live window keeps a label.
C7_Original ==
    UndecodableStill =>
        /\ exc # "AttributeError"
        /\ LiveWindow => app.overlay_window[1].label.kind # "none"

\* C8 as stated: the overlay becomes visible only with an existing image path and a
\* display index inside the list of screens; when one of them fails, a toggle leaves
\* is_overlay_visible false and creates no window.
C8_Original ==
    [][LET pre == /\ app.image_path # NoPath /\ FileExists(app.image_path)
                  /\ 0 <= app.display_index /\ app.display_index < screen_count
       IN  /\ (~app.is_overlay_visible /\ app'.is_overlay_visible) => pre
           /\ (ToggleStep /\ ~app.is_overlay_visible /\ ~pre) =>
                 (~app'.is_overlay_visible /\ app'.overlay_window = None)]_vars

\* C9 as stated: showing the overlay with a display index beyond the screens makes it
\* visible with the primary screen's geometry.
C9_Original ==
    [][(/\ ToggleStep /\ ~app.is_overlay_visible
        /\ FileExists(app.image_path) /\ CanDecode(app.image_path)
        /\ app.display_index >= screen_count) =>
          /\ app'.is_overlay_visible
          /\ app'.overlay_window # None
          /\ app'.overlay_window[1].geometry = ScreenGeometry(0)]_vars

\* C9 amended: with a display index at or beyond the number of screens,
\* get_screen_geometry falls back to the primary screen, so a visible overlay whose
\* display is changed to such an index takes the primary screen's geometry; showing
\* the overlay with such an index is refused and changes nothing.
C9_FallsBackToPrimary ==
    [][/\ (/\ app'.display_index # app.display_index
           /\ app.is_overlay_visible /\ LiveWindow
           /\ app'.display_index >= screen_count) =>
             /\ exc' = "none"
             /\ app'.overlay_window[1].geometry = ScreenGeometry(0)
       /\ (ToggleStep /\ ~app.is_overlay_visible /\ app.display_index >= screen_count) =>
             /\ exc' = "none"
             /\ ~app'.is_overlay_visible
             /\ app'.overlay_window = None]_vars

\* C9 witness: a visible overlay sits on the primary screen although the selected
\* display index names no attached screen.
C9_Witness ==
    /\ app.is_overlay_visible /\ LiveWindow
    /\ app.display_index >= screen_count
    /\ app.overlay_window[1].geometry = ScreenGeometry(0)
    /\ exc = "none"

\* C10 as stated: a live overlay window is input-transparent exactly when it is not
\* in edit mode.
C10_Original ==
    LiveWindow =>
        (app.overlay_window[1].transparent_for_input <=> ~app.overlay_window[1].edit_mode)

\* C33 as stated: in the host, is_overlay_visible is true exactly when a live (not
\* destroyed) overlay window exists.
C33_Original == app.is_overlay_visible <=> LiveWindow

\* C34 as stated: whenever an overlay window exists, its edit_mode equals the host's
\* edit_mode.
C34_Original ==
    app.overlay_window # None => app.overlay_window[1].edit_mode = app.edit_mode

\* C35: toggle requests are debounced.  A request (button or hotkey) that arrives while
\* the single-shot toggle timer is pending changes nothing in the host, whatever their
\* number; a request that arrives when no timer is pending starts one; the overlay's
\* visibility flips through a toggle only when the pending timer fires, which ends the
\* window; and a pending timer does fire (or the process has ended).
C35_TogglesDebounced ==
    /\ [][program = "anyoverlay.py" =>
            /\ (app.toggle_timer_active /\ app'.toggle_requests > app.toggle_requests) =>
                  app' = [app EXCEPT !.toggle_requests = app'.toggle_requests]
            /\ (~app.toggle_timer_active /\ app'.toggle_requests # app.toggle_requests) =>
                  app' = [app EXCEPT !.toggle_timer_active = TRUE, !.toggle_requests = 1]
            /\ (app'.is_overlay_visible # app.is_overlay_visible /\ ~OverlayChosen) =>
                  ToggleStep
            /\ ToggleStep => app'.toggle_requests = 0]_vars
    /\ (program = "anyoverlay.py" /\ app.toggle_timer_active)
          ~> (program = "anyoverlay.py" /\ (~app.toggle_timer_active \/ exc # "none"))

\* C35 witness: the overlay is visible after one toggle, a new timer is pending and has
\* seen three requests, and the overlay is still visible.
C35_Witness ==
    /\ program = "anyoverlay.py"
    /\ app.toggle_timer_active
    /\ app.toggle_requests = 3
    /\ app.is_overlay_visible /\ LiveWindow
    /\ toggled_on = "ui"

\* C36 as stated: an overlay window never has more than one running periodic update
\* timer, and it has one exactly when update_interval > 0.
C36_Original ==
    LiveWindow =>
        /\ app.overlay_window[1].running_timers <= 1
        /\ app.overlay_window[1].running_timers = 1
              <=> app.advanced_settings.update_interval > 0

\* C37 as stated: with a configured cache_size of 0 or less, a miss in load_image (of a
\* decodable source) or in get_scaled_frame completes and returns the scaled bitmap.
C37_Original ==
    (/\ CurMax <= 0
     /\ last.op \in Gets /\ ~last.hit
     /\ last.op = "load_image" => CanDecode(last.key[1])) =>
        /\ exc = "none"
        /\ last.result # None

\* C38 as stated: the caches are observationally equal to no cache: each bitmap
\* load_image returns, and each frame get_scaled_frame returns, equals what a fresh
\* decode and scale under the settings current at that call produces.
C38_Original ==
    [][/\ \A image_path \in ImagePaths, target_size \in TargetSizes,
             scaling_mode \in LoadModes, scale_factor \in ScaleFactors :
             (/\ owner = "CachedImageRenderer"
              /\ load_image(image_path, target_size, scaling_mode, scale_factor)
              /\ render_settings' = render_settings
              /\ last'.result # None) =>
                last'.result[1] =
                    ScaleForMode(DecodedImage(image_path, target_size, render_settings),
                                 target_size, scaling_mode, scale_factor, render_settings)
       /\ (GifPaintEvent /\ last'.result # None) =>
             last'.result[1] = ScaledFrame(RawFrame(current_frame),
                                           Max(1, render_settings.tile_scale),
                                           render_settings)]_vars

\* C39 as stated: after the scale factor is set to a value while an overlay is visible,
\* advanced_settings['scale_factor'] (which is also what the settings file was given)
\* and the overlay's scale_factor both equal that value.
C39_Original ==
    [][\A value \in ScaleFactors :
          (HasOverlay(app) /\ on_scale_factor_changed(value) /\ exc' = "none") =>
             /\ render_settings'.scale_factor = value
             /\ app'.overlay_window[1].scale_factor = value]_vars

\* the handlers of the three mouse events
MouseOps == {"mousePressEvent", "mouseMoveEvent", "mouseReleaseEvent"}

\* C40: while the overlay is not in edit mode, a mouse press, move or release changes
\* nothing: dragging, resizing, last_mouse_pos, the window's position and size and its
\* visual are as before, and nothing is raised.
C40_MouseIgnoredOutsideEditMode ==
    [][(/\ MouseDelivered(app)
        /\ ~app.overlay_window[1].edit_mode
        /\ PressDelivered \/ MoveDelivered \/ ReleaseDelivered) =>
          /\ app' = app
          /\ exc' = "none"]_vars

\* C40 witness: a mouse move has been handled on a window that is not in edit mode
\* although a drag was in progress when edit mode ended, and the window sits where
\* it was put, away from the pointer position last recorded.
C40_Witness ==
    /\ MouseDelivered(app)
    /\ last.op = "mouseMoveEvent"
    /\ ~app.overlay_window[1].edit_mode
    /\ app.overlay_window[1].dragging
    /\ app.overlay_window[1].last_mouse_pos = Some(<<10, 10>>)
    /\ app.overlay_window[1].geometry.x = 10

====
